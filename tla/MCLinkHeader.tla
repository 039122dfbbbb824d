---------------------------- MODULE MCLinkHeader ----------------------------
(***************************************************************************)
(* Bounded instances of LinkHeader.  A header is a concatenation of up to  *)
(* MaxFrags fragments: pieces of well-formed link-values and single        *)
(* punctuation symbols, so that every way of breaking a link-value off     *)
(* (an unterminated "<" or quote, a missing name or value, junk, a missing *)
(* or doubled ",") occurs in some header.                                  *)
(***************************************************************************)
EXTENDS LinkHeader

MCAlnum == {"x", "rel", "preload"}

\* Fragments of the well-formed grammar, and symbols that break it.
GrammarFrags ==
    { <<LT, "x", GT>>, <<SEMI, "rel", EQ, "preload">>, <<SEMI, "x">>,
      <<EQ>>, <<DQ>>, <<"x">>, <<COMMA>>, <<SP>>, <<LT>>, <<SEMI>> }

MCHeaders(frags, k) == { FlattenSeq(f) : f \in BoundedSeq(frags, k) }

MCGrammarHeaders == MCHeaders(GrammarFrags, 5)

\* A percent-encoded parameter value, "x=%20" (RFC 5988 ptokenchar "%").
MCPercentHeaders ==
    MCHeaders({<<LT, "x", GT>>, <<SEMI, "x", EQ>>, <<PCT, "x">>, <<COMMA>>}, 4)

=============================================================================
