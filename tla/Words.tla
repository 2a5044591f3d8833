-------------------------------- MODULE Words --------------------------------
(***************************************************************************)
(* Words of 32 bits as the sets of the bits that are 1.                     *)
(***************************************************************************)
LOCAL INSTANCE Integers

Bits == 0..31

(* w << n, or w >> -n                                                        *)
Shifted(w, n) == {b + n : b \in w} \cap Bits
==============================================================================
