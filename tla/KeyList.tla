------------------------------- MODULE KeyList -------------------------------
(***************************************************************************)
(* The loop by which ClientManage and CameraMangage take a key out of a    *)
(* vector of keys: from the front to the back, every element that equals   *)
(* the key is erased, and the others stay in their order.                  *)
(***************************************************************************)
EXTENDS Integers, Sequences

(* kept[i] is what the first i keys become. *)
Without(keys, key) ==
  LET kept[i \in 0..Len(keys)] ==
        IF i = 0 THEN <<>>
        ELSE IF keys[i] = key THEN kept[i - 1]
        ELSE Append(kept[i - 1], keys[i])
  IN  kept[Len(keys)]
=============================================================================
