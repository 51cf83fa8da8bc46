--------------------------- MODULE MCOperatorPath ---------------------------
(* Values for TLC: every button whose effect is not that of its neighbour  *)
(* in a chain, alone, and the pairs that compete.                          *)
EXTENDS OperatorPath

MCDriverInputs == {{}, {"b_button"}, {"b_button", "y_button"}, {"right_trigger"}}
MCOperatorInputs == {{}, {"a_button", "left_trigger"}, {"a_button", "x_button"},
                     {"pov_up", "right_trigger"}, {"left_bumper", "left_trigger"}}
MCSightings == {{"has_piece"}, {"has_piece", "see_reef"}}
MCChildren == {"telescope", "coral_ee", "elevator", "algal_ee"}
=============================================================================
