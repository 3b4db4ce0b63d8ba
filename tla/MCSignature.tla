---------------------------- MODULE MCSignature ----------------------------
(* Small instances of Signature for TLC. *)
EXTENDS Signature, TLC

CONSTANTS q1, h1, h2, h3, h4, convention, before, after, none, wrong

OneRequest == {q1}
OneContent == {before}
TwoContents == {before, after}
OneReference == {convention}
ThreeHandlers == {h1, h2, h3}
FourHandlers == {h1, h2, h3, h4}
CodesAndConfirmations == {"send", "confirm"}
Sym == Permutations(FourHandlers) \cup Permutations(TwoContents)
SymThree == Permutations(ThreeHandlers)
=============================================================================
