------------------------- MODULE ProductHashProofs -------------------------
(***************************************************************************)
(* Proofs about ProductHash, for any tables of settings.                   *)
(***************************************************************************)

EXTENDS ProductHash, TLAPS

(* Every image that is kept agrees with its hash on what both depend on.   *)
KeptImagesAgree ==
    \A kept \in imageCache :
       kept.hash \cap Read[product] = kept.image \cap Hashed[product]

(* An answer is wrong in nothing that its product hashes. *)
AnswerAgrees ==
    answer.sent \cap Hashed[product] = answer.wanted \cap Hashed[product]

(* A product without a hash has nothing in the cache, and no wrong answer. *)
NothingKeptWithoutHash ==
    product \in Uncached => imageCache = {} /\ answer.sent = answer.wanted

IInv == TypeOK /\ KeptImagesAgree /\ AnswerAgrees /\ NothingKeptWithoutHash

-----------------------------------------------------------------------------

LEMMA InitIInv == Init => IInv
  BY DEF Init, IInv, TypeOK, KeptImagesAgree, AnswerAgrees, NothingKeptWithoutHash, NoAnswer

LEMMA ChangeIInv ==
    ASSUME IInv, NEW setting \in Settings[product], Change(setting)
    PROVE  IInv'
  BY DEF IInv, TypeOK, KeptImagesAgree, AnswerAgrees, NothingKeptWithoutHash, Change

LEMMA FindIInv ==
    ASSUME IInv, NEW kept \in imageCache, Find(kept)
    PROVE  IInv'
  <1> USE DEF Find, HashOf, ImageOf
  <1>1. kept.image \subseteq Read[product]
    BY DEF IInv, TypeOK
  <1>2. TypeOK'
    BY <1>1 DEF IInv, TypeOK
  <1>3. KeptImagesAgree'
    BY DEF IInv, KeptImagesAgree
  <1>4. AnswerAgrees'
    <2>1. kept.hash \cap Read[product] = kept.image \cap Hashed[product]
      BY DEF IInv, KeptImagesAgree
    <2>2. (changed \cap Hashed[product]) \cap Read[product] = kept.image \cap Hashed[product]
      BY <2>1
    <2> QED
      BY <2>2 DEF AnswerAgrees
  <1>5. NothingKeptWithoutHash'
    BY DEF NothingKeptWithoutHash
  <1> QED
    BY <1>2, <1>3, <1>4, <1>5 DEF IInv

LEMMA GenerateIInv ==
    ASSUME IInv, Generate
    PROVE  IInv'
  <1> USE DEF Generate, HashOf, ImageOf
  <1> DEFINE new == [hash |-> changed \cap Hashed[product], image |-> changed \cap Read[product]]
  <1>1. imageCache' \subseteq imageCache \cup {new}
    OBVIOUS
  <1>2. new \in [hash : SUBSET Hashed[product], image : SUBSET Read[product]]
    OBVIOUS
  <1>3. TypeOK'
    BY <1>1, <1>2 DEF IInv, TypeOK
  <1>4. KeptImagesAgree'
    <2>1. new.hash \cap Read[product] = new.image \cap Hashed[product]
      OBVIOUS
    <2> QED
      BY <1>1, <2>1 DEF IInv, KeptImagesAgree
  <1>5. AnswerAgrees'
    BY DEF AnswerAgrees
  <1>6. NothingKeptWithoutHash'
    BY DEF IInv, NothingKeptWithoutHash
  <1> QED
    BY <1>3, <1>4, <1>5, <1>6 DEF IInv

LEMMA NextIInv == IInv /\ [Next]_vars => IInv'
  <1> SUFFICES ASSUME IInv, [Next]_vars PROVE IInv'
    OBVIOUS
  <1>1. CASE \E setting \in Settings[product] : Change(setting)
    BY <1>1, ChangeIInv
  <1>2. CASE \E kept \in imageCache : Find(kept)
    BY <1>2, FindIInv
  <1>3. CASE Generate
    BY <1>3, GenerateIInv
  <1>4. CASE UNCHANGED vars
    BY <1>4 DEF vars, IInv, TypeOK, KeptImagesAgree, AnswerAgrees, NothingKeptWithoutHash
  <1> QED
    BY <1>1, <1>2, <1>3, <1>4 DEF Next

-----------------------------------------------------------------------------

(* The variables stay what they are said to be: requests differ in the     *)
(* settings of their product, what is kept are hashes and images of it.    *)
THEOREM TypeCorrect == Spec => []TypeOK
  <1>1. IInv => TypeOK
    BY DEF IInv
  <1> QED
    BY <1>1, InitIInv, NextIInv, PTL DEF Spec

(* Without any assumption on the code's hashes, an answer is right in every *)
(* setting that the hash depends on.                                        *)
THEOREM HashedSettingsHonoured == Spec => [](Wrong \cap Hashed[product] = {})
  <1>1. IInv => Wrong \cap Hashed[product] = {}
    BY DEF IInv, AnswerAgrees, Wrong
  <1> QED
    BY <1>1, InitIInv, NextIInv, PTL DEF Spec

(* The image of a product depends on nothing that its hash does not, but   *)
(* for the known gaps.                                                     *)
Covered == \A p \in Products \ Uncached : Read[p] \ Hashed[p] \subseteq Gaps[p]

(* If the images depend on nothing but the hashes and the known gaps, as    *)
(* the run checks of the tables of the code, then no sequence of requests   *)
(* is answered wrong in any other setting.                                  *)
THEOREM AnswersOnlyWrongInGaps ==
    ASSUME Covered
    PROVE  Spec => []WrongOnlyInGaps
  <1>1. IInv => WrongOnlyInGaps
    <2> SUFFICES ASSUME IInv, NEW s \in Wrong PROVE s \in Gaps[product]
      BY DEF WrongOnlyInGaps
    <2>1. product \in Products \ Uncached
      BY DEF IInv, TypeOK, NothingKeptWithoutHash, Wrong
    <2>2. s \in Read[product]
      BY DEF IInv, TypeOK, Wrong
    <2>3. s \notin Hashed[product]
      BY DEF IInv, AnswerAgrees, Wrong
    <2> QED
      BY <2>1, <2>2, <2>3, Covered DEF Covered
  <1> QED
    BY <1>1, InitIInv, NextIInv, PTL DEF Spec

=============================================================================
