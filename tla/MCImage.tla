------------------------------- MODULE MCImage ------------------------------
(* Model checking of Image.  A run fills one pool to its bound, or each of *)
(* them with little; the pools meet in the image only.                     *)
EXTENDS Image

CONSTANTS k1, k2, k3, k4, Few

HashOf(bits) == [i \in 0..HashBits - 1 |-> bits[i + 1]]

(* Of four keys some part at the first bit of their hashes, two only at    *)
(* the last, and two have the same hash.                                   *)
MCHash ==
  [k \in Keys |->
     HashOf(CASE k = k1 -> <<0, 0, 0, 0>>
              [] k = k2 -> <<0, 0, 0, 1>>
              [] k = k3 -> <<1, 0, 0, 0>>
              [] k = k4 -> <<0, 0, 0, 1>>)]

MCTexts == {<<>>, <<"a">>, <<"b", "a", "b">>}
MCSyscallLists == {<<>>, <<<<"f">>>>, <<<<"g", "f">>, <<"f">>>>}

NamesUntouched   == iUsed = 0 /\ call = None /\ result = None
TextsUntouched   == iUsedOffsetsSize = 0 /\ sTextResult = None
NumbersUntouched == iUsedNumbers = 0 /\ oNumberResult = None
(* A Put under way is counted, so that it can always end. *)
Putting == IF call = None THEN 0 ELSE 1
Compiled == iUsed + Putting + iUsedOffsetsSize + iUsedNumbers <= Few

MCNext ==
  /\ ImageNext
  /\ \/ NamesUntouched' /\ TextsUntouched'
     \/ NamesUntouched' /\ NumbersUntouched'
     \/ TextsUntouched' /\ NumbersUntouched'
     \/ Compiled'
  /\ image' # NoImage => Compiled' /\ result' = None /\ sTextResult' = None /\ oNumberResult' = None

MCSpec == ImageInit /\ [][MCNext]_ImageVars /\ WF_vars(NameStep /\ Iteration)
=============================================================================
