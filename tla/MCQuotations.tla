---------------------------- MODULE MCQuotations ----------------------------
(* Instances of Quotations for TLC.                                        *)
EXTENDS Quotations, TLC

CONSTANTS q1, q2, e1, b1, b2, r1, r2, r3

\* A native quotation's lines add up to its total; a mirrored one may say 2,
\* with lines that add up to 1.
OneOffer == {[total |-> 1, lines |-> 1]}
DriftOffers == OneOffer \cup {[total |-> 2, lines |-> 1]}

SalesMix == {"lapse", "decline"}
DeskMix == {"delete", "direct", "crash"}
MirrorOnly == {"mirror"}

\* Quotations, bookings and requests are interchangeable where no quotation
\* is singled out as mirrored.
SymTwo == Permutations({q1, q2}) \cup Permutations({b1, b2}) \cup Permutations({r1, r2})
SymOne == Permutations({b1, b2}) \cup Permutations({r1, r2})
=============================================================================
