------------------------------ MODULE FileStore ------------------------------
(***************************************************************************)
(* What TecnicoFS promises its callers about files, without i-nodes,       *)
(* blocks or handles: a flat directory of uniquely named files, each a     *)
(* string of bytes of its own.  A step creates one empty file, empties one *)
(* file, or overwrites one range of one file; nothing else ever changes.   *)
(***************************************************************************)
EXTENDS Integers

CONSTANTS Names, Files, Bytes, MaxSize

VARIABLES
  directory,   \* the file of each name that exists
  contents     \* the bytes of each file, a function on 0 .. size - 1

vars == <<directory, contents>>

Nothing == [k \in {} |-> 0]

Init ==
  /\ directory = Nothing
  /\ contents = [file \in Files |-> Nothing]

Existing == {directory[name] : name \in DOMAIN directory}

Create(name, file) ==
  /\ name \notin DOMAIN directory
  /\ file \notin Existing
  /\ directory' = [n \in DOMAIN directory \cup {name} |->
                     IF n = name THEN file ELSE directory[n]]
  /\ UNCHANGED contents

Truncate(file) ==
  /\ contents' = [contents EXCEPT ![file] = Nothing]
  /\ UNCHANGED directory

\* The bytes first .. last become v.  Those before stay, and when the range
\* starts beyond the end of the file the bytes between are unspecified.
Overwritten(old, new, first, last, v) ==
  /\ new \in [DOMAIN old \cup 0 .. last -> Bytes]
  /\ \A k \in first .. last : new[k] = v
  /\ \A k \in DOMAIN old \ (first .. last) : new[k] = old[k]

\* To write what the file holds already is a stuttering step.
Overwrite(file) ==
  LET old == contents[file]
      new == contents'[file]
  IN  /\ new # old
      /\ \E last \in 0 .. MaxSize - 1, v \in Bytes :
           \E first \in 0 .. last : Overwritten(old, new, first, last, v)
      /\ contents' = [contents EXCEPT ![file] = new]
      /\ UNCHANGED directory

Next ==
  \/ \E name \in Names, file \in Files : Create(name, file)
  \/ \E file \in Existing : Truncate(file) \/ Overwrite(file)

Spec == Init /\ [][Next]_vars
=============================================================================
