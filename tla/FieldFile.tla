----------------------------- MODULE FieldFile -----------------------------
(***************************************************************************)
(* Field: the files with points, paths and scripts that are read when the  *)
(* robot starts.                                                           *)
(*                                                                         *)
(* A file is [lines, newline]: its lines, each split at its commas, and    *)
(* whether a newline follows the last.  Numbers are tokens like names.     *)
(***************************************************************************)
EXTENDS Integers, Sequences, SequencesExt

CONSTANTS Tokens, Zero  (* one of them is the number 0                     *)

ASSUME TokensAssumption == Zero \in Tokens

Origin == [x |-> Zero, y |-> Zero, bearing |-> Zero, velocity |-> Zero]

(* Reading goes on while the file is good, and a word that is not there    *)
(* leaves the one before.                                                  *)
readLines(file) ==
  IF file.lines = <<>> THEN << <<>> >>
  ELSE IF file.newline THEN Append(file.lines, Last(file.lines))
  ELSE file.lines

(* Slip: the last one with the name.                                       *)
FindLast(list, name, default) ==
  LET i == SelectLastInSeq(list, LAMBDA e : e.name = name)
  IN  IF i = 0 THEN default ELSE list[i].value

(* Points and paths are lists of [name, value]; the first one with a name  *)
(* is meant.                                                               *)
Find(list, name, default) ==
  LET i == SelectInSeq(list, LAMBDA e : e.name = name)
  IN  IF i = 0 THEN default ELSE list[i].value

getPoint(points, name) == Find(points, name, Origin)
getPath(paths, name)   == Find(paths, name, <<>>)

At(x, y, bearing, velocity) ==
  [x |-> x, y |-> y, bearing |-> bearing, velocity |-> velocity]

(* N,name,x,y,bearing[,velocity]; P,x,y,bearing[,velocity]; F,name.        *)
parsePoint(tokens, points) ==
  CASE tokens = <<>> -> Origin
    [] tokens # <<>> /\ tokens[1] = "N" ->
         At(tokens[3], tokens[4], tokens[5], IF Len(tokens) = 6 THEN tokens[6] ELSE Zero)
    [] tokens # <<>> /\ tokens[1] = "P" ->
         At(tokens[2], tokens[3], tokens[4], IF Len(tokens) = 5 THEN tokens[5] ELSE Zero)
    [] tokens # <<>> /\ tokens[1] = "F" ->
         IF Len(tokens) = 2 THEN getPoint(points, tokens[2]) ELSE Origin
    [] OTHER -> Origin

(* A line may name a point of a line before it.                            *)
AddPoint(points, line) ==
  IF Len(line) >= 2
  THEN Append(points, [name |-> line[2], value |-> parsePoint(line, points)])
  ELSE points

readPointsFile(file) == FoldLeft(AddPoint, <<>>, readLines(file))

(* files maps the names of the files that there are, in whatever order     *)
(* they are found, to what is in them.                                     *)
readAllPaths(files, points) ==
  LET names == SetToSeq(DOMAIN files)
  IN  [k \in DOMAIN names |->
         [name |-> names[k],
          value |-> [i \in DOMAIN readLines(files[names[k]]) |->
                       parsePoint(readLines(files[names[k]])[i], points)]]]

(* What a line of a script makes the auto do.                              *)
Action(line, paths) ==
  IF Len(line) # 2 THEN <<>>
  ELSE CASE line[1] = "PATH" -> <<[path |-> getPath(paths, line[2])]>>
         [] line[1] = "ACT"  -> <<[act |-> line[2]]>>
         [] OTHER            -> <<>>

(* Of a script with fewer lines than two there is no auto.  The first line *)
(* is taken off before the others are gone through for actions, the        *)
(* second, with the start, is not.                                         *)
AutoData(file, points, paths) ==
  LET lines == readLines(file)
  IN  IF Len(lines) < 2 THEN {}
      ELSE {[red |-> lines[1][1], blue |-> lines[1][2],
             start |-> parsePoint(lines[2], points),
             actions |-> FlattenSeq([i \in DOMAIN Tail(lines) |->
                                       Action(Tail(lines)[i], paths)])]}
=============================================================================
