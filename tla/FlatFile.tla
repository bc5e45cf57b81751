------------------------------- MODULE FlatFile -------------------------------
(***************************************************************************)
(* What an entry of the mount promises to be: an array of bytes with a     *)
(* size, of which the last flush made a copy that a crash gives back.      *)
(* A byte beyond the size is zero, whatever was there before.              *)
(***************************************************************************)
EXTENDS Naturals

CONSTANTS
  MaxSize,   \* bound on the size of the file
  Values     \* the bytes that are written

Offsets == 0..(MaxSize - 1)
Bytes   == {0} \cup Values
Files   == [size : 0..MaxSize, bytes : [Offsets -> Bytes]]

VARIABLES
  file,   \* the file as it reads
  kept    \* the copy of the last flush or commit

Written(f, from, to, v) ==
  [size  |-> IF to > f.size THEN to ELSE f.size,
   bytes |-> [i \in Offsets |-> IF i \in from..(to - 1) THEN v ELSE f.bytes[i]]]

Resized(f, size) ==
  [size  |-> size,
   bytes |-> [i \in Offsets |-> IF i < size THEN f.bytes[i] ELSE 0]]

Init ==
  /\ file \in Files /\ \A i \in Offsets : i >= file.size => file.bytes[i] = 0
  /\ kept = file

Write(from, to, v) == UNCHANGED kept /\ file' = Written(file, from, to, v)
Truncate(size)     == UNCHANGED kept /\ file' = Resized(file, size)
Flush              == kept' = file /\ UNCHANGED file
Crash              == file' = kept /\ UNCHANGED kept

Next ==
  \/ Flush \/ Crash
  \/ \E size \in 0..MaxSize : Truncate(size)
  \/ \E from \in Offsets : \E to \in (from + 1)..MaxSize : \E v \in Values :
       Write(from, to, v)

Spec == Init /\ [][Next]_<<file, kept>>
===============================================================================
