--------------------------- MODULE MCChannelTables ---------------------------
(***************************************************************************)
(* A finite instance of ChannelTables: one channel of each of two          *)
(* stations, and six keys from the narrowest to a blanket one, of which    *)
(* two share a bucket.                                                     *)
(***************************************************************************)
EXTENDS ChannelTables, TLC

CONSTANTS s1, s2, l1, c1

KeyOf(s, l, c) == [station |-> s, loc |-> l, chan |-> c]

MCCommanded ==
    {KeyOf(s1, l1, c1), KeyOf(s1, AnyPart, c1), KeyOf(s1, l1, AnyPart), KeyOf(s1, AnyPart, AnyPart),
     KeyOf(AnyPart, AnyPart, c1), KeyOf(s2, AnyPart, c1)}

MCBucket(k) == IF k = KeyOf(s2, AnyPart, c1) THEN KeyOf(s1, l1, c1) ELSE k

\* The two destinations are treated alike.
TableSymmetry == Permutations(Tables)

MCPatterns == {KeyOf(s1, AnyPart, c1)}
==============================================================================
