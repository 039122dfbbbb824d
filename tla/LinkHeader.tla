----------------------------- MODULE LinkHeader -----------------------------
(***************************************************************************)
(* The Link-header scanner of mod_http2 (h2_push.c, link_ctx and           *)
(* skip_ws ... read_sep, inspect_link): one response header field value is *)
(* scanned left to right into link-values "<target>" with parameters, each *)
(* handed to add_push as soon as its parameters have been read.            *)
(*                                                                         *)
(* A header is a sequence of symbols.  A symbol is one punctuation         *)
(* character or a whole word of letters and digits (Alnum); words are kept *)
(* whole because no code path splits a run of alphanumerics.  Positions    *)
(* are 0-based as in the code: At(s, j) is the C s[j].                     *)
(***************************************************************************)
EXTENDS Naturals, Sequences, SequencesExt, TLC

CONSTANTS
    Alnum,        \* word symbols: runs of ASCII letters and digits
    Headers       \* the header field values a response can carry

LT == "<"   GT == ">"   SEMI == ";"   EQ == "="   COMMA == ","
DQ == "\""  SP == " "   TAB == "\t"   PCT == "%"
\* The grave accent, which SANY does not accept inside a string literal.
GRAVE == "grave-accent"

VARIABLES
    s,            \* ctx->s, ctx->slen = Len(s)
    i,            \* ctx->i
    link,         \* ctx->link
    params,       \* ctx->params: parameter name -> value (apr_table_setn)
    lpc,          \* where inspect_link is: "link", "param", "add", "sep", "done"
    values        \* the link-values add_push was called with, in order

linkVars == <<s, i, link, params, lpc, values>>

At(str, j) == str[j + 1]

\* attr_char: RFC 5987 attr-char.
AttrSpecials == {"!", "#", "$", "&", "+", "-", ".", "^", "_", GRAVE, "|", "~"}
attr_char == AttrSpecials \cup Alnum

\* ptoken_char: the RFC 5988 ptokenchar list as the code spells it.
PtokenSpecials ==
    {"!", "#", "$", "&", "'", "(", ")", "*", "+", "-", ".", "/", ":", "<",
     "=", ">", "?", "@", "[", "]", "^", "_", GRAVE, "{", "|", "}", "~"}
ptoken_char == PtokenSpecials \cup Alnum

EmptyParams == [n \in {} |-> <<>>]

\* skip_ws: the index of the first symbol at or after j that is not SP/TAB.
RECURSIVE skip_ws(_, _)
skip_ws(str, j) ==
    IF j < Len(str) /\ At(str, j) \in {SP, TAB} THEN skip_ws(str, j + 1) ELSE j

\* The end of the run of symbols of class cls starting at j (the for loops
\* of read_ptoken and read_pname).
RECURSIVE RunEnd(_, _, _)
RunEnd(str, j, cls) ==
    IF j < Len(str) /\ At(str, j) \in cls THEN RunEnd(str, j + 1, cls) ELSE j

\* find_chr: the first index >= j holding c, or -1.
find_chr(str, j, c) ==
    LET js == {k \in j..(Len(str) - 1) : At(str, k) = c}
    IN  IF js = {} THEN -1 ELSE Min(js)

read_chr(str, j, c) == j < Len(str) /\ At(str, j) = c

mk_str(str, j, end) == IF j < end THEN SubSeq(str, j + 1, end) ELSE <<>>

(***************************************************************************)
(* Each read_* returns [ok, i, val]: its result, ctx->i after the call,    *)
(* and the string it stored.  A failing call still leaves ctx->i past the  *)
(* white space and any character it consumed.                              *)
(***************************************************************************)
Fail(j) == [ok |-> FALSE, i |-> j, val |-> <<>>]

\* read_qstring / read_link: an opening symbol, then up to the first close.
ReadDelimited(str, j0, open, close) ==
    LET j == skip_ws(str, j0)
        e == find_chr(str, j + 1, close)
    IN  IF ~read_chr(str, j, open) THEN Fail(j)
        ELSE IF e < 0 THEN Fail(j + 1)
        ELSE [ok |-> TRUE, i |-> e + 1, val |-> mk_str(str, j + 1, e)]

read_qstring(str, j0) == ReadDelimited(str, j0, DQ, DQ)
read_link(str, j0) == ReadDelimited(str, j0, LT, GT)

\* read_ptoken / read_pname: a non-empty run of one character class.
ReadRun(str, j0, cls) ==
    LET j == skip_ws(str, j0)
        e == RunEnd(str, j, cls)
    IN  IF e > j THEN [ok |-> TRUE, i |-> e, val |-> mk_str(str, j, e)]
        ELSE Fail(j)

read_ptoken(str, j0) == ReadRun(str, j0, ptoken_char)
read_pname(str, j0) == ReadRun(str, j0, attr_char)

\* read_pvalue: "=" then a quoted string, else a ptoken from wherever the
\* failed read_qstring left ctx->i.
read_pvalue(str, j0) ==
    LET j == skip_ws(str, j0)
        q == read_qstring(str, j + 1)
    IN  IF ~read_chr(str, j, EQ) THEN Fail(j)
        ELSE IF q.ok THEN q
        ELSE read_ptoken(str, q.i)

read_param(str, j0, ps) ==
    LET j == skip_ws(str, j0)
        n == read_pname(str, j + 1)
        v == read_pvalue(str, n.i)
    IN  IF ~read_chr(str, j, SEMI) THEN [ok |-> FALSE, i |-> j, ps |-> ps]
        ELSE IF ~n.ok THEN [ok |-> FALSE, i |-> n.i, ps |-> ps]
        ELSE [ok |-> TRUE, i |-> v.i, ps |-> (n.val :> v.val) @@ ps]

\* read_sep that steps over the next character whether or not it is ",".
ReadSepAlwaysAdvances(str, j0) ==
    LET j == skip_ws(str, j0)
    IN  IF read_chr(str, j, COMMA) THEN [ok |-> TRUE, i |-> j + 1, val |-> <<>>]
        ELSE Fail(j + 1)

read_sep(str, j0) ==
    LET j == skip_ws(str, j0)
    IN  IF read_chr(str, j, COMMA) THEN [ok |-> TRUE, i |-> j + 1, val |-> <<>>]
        ELSE Fail(j)

(***************************************************************************)
(* inspect_link(ctx, s, slen): ctx->s = s, ctx->slen = slen, ctx->i = 0,  *)
(* then                                                                    *)
(*   while (read_link) { init_params; while (read_param); add_push;        *)
(*                       if (!read_sep) break; }                           *)
(* One action per call of the loop, each with its outcome.                 *)
(***************************************************************************)
inspect_link(str) ==
    /\ s' = str
    /\ i' = 0
    /\ lpc' = "link"

\* read_link succeeds; init_params clears ctx->params.
ReadLink ==
    LET r == read_link(s, i)
    IN  /\ lpc = "link" /\ r.ok
        /\ i' = r.i /\ link' = r.val /\ params' = EmptyParams
        /\ lpc' = "param"
        /\ UNCHANGED <<s, values>>

\* read_link fails: inspect_link returns.
ReadLinkFails ==
    LET r == read_link(s, i)
    IN  /\ lpc = "link" /\ ~r.ok
        /\ i' = r.i /\ lpc' = "done"
        /\ UNCHANGED <<s, link, params, values>>

ReadParam ==
    LET r == read_param(s, i, params)
    IN  /\ lpc = "param" /\ r.ok
        /\ i' = r.i /\ params' = r.ps
        /\ UNCHANGED <<s, link, lpc, values>>

\* The last read_param of a link-value fails, possibly after consuming
\* white space, a ";" or a parameter name.
ParamsEnd ==
    LET r == read_param(s, i, params)
    IN  /\ lpc = "param" /\ ~r.ok
        /\ i' = r.i /\ lpc' = "add"
        /\ UNCHANGED <<s, link, params, values>>

\* add_push(ctx) is called with ctx->link and ctx->params.
LinkValue ==
    /\ lpc = "add"
    /\ values' = Append(values, [link |-> link, params |-> params])
    /\ lpc' = "sep"
    /\ UNCHANGED <<s, i, link, params>>

ReadSep ==
    LET r == read_sep(s, i)
    IN  /\ lpc = "sep" /\ r.ok
        /\ i' = r.i /\ lpc' = "link"
        /\ UNCHANGED <<s, link, params, values>>

\* read_sep fails: break.
SepEnd ==
    LET r == read_sep(s, i)
    IN  /\ lpc = "sep" /\ ~r.ok
        /\ i' = r.i /\ lpc' = "done"
        /\ UNCHANGED <<s, link, params, values>>

ScanStep ==
    ReadLink \/ ReadLinkFails \/ ReadParam \/ ParamsEnd \/ LinkValue
    \/ ReadSep \/ SepEnd

\* A fresh link_ctx (memset 0) given one header value.
LinkInit ==
    /\ \E h \in Headers : s = h
    /\ i = 0 /\ lpc = "link"
    /\ link = <<>> /\ params = EmptyParams /\ values = <<>>

LinkSpec == LinkInit /\ [][ScanStep]_linkVars

-----------------------------------------------------------------------------
(***************************************************************************)
(* A reference reading of the grammar quoted in inspect_link (RFC 5988     *)
(* 6.2.1 with the RFC 5987 parmname), with optional white space between    *)
(* tokens:                                                                 *)
(*   #link-value, link-value = "<" target ">" *( ";" link-param ),         *)
(*   link-param = parmname [ "=" ( ptoken | quoted-string ) ],             *)
(*   ptokenchar includes "%" (as the comment at line 391 lists it),        *)
(*   quoted-string = DQ *qdtext DQ, with no escape processing (design 4.1). *)
(* The target is taken leniently as any text up to ">", since the URI is   *)
(* checked later by apr_uri_parse.  It yields the link-values read before  *)
(* the first error and the kind of that error ("none" if s is well         *)
(* formed); a link-value with an error inside is not among them.           *)
(***************************************************************************)
RfcPtokenChars == ptoken_char \cup {PCT}

RefErr(vs, e) == [ok |-> FALSE, vals |-> vs, err |-> e]

\* The quoted-string body from j (after the opening DQ), up to the next DQ.
RECURSIVE RefQuoted(_, _, _)
RefQuoted(str, j, acc) ==
    CASE j >= Len(str) -> RefErr(<<>>, "unterminated_quote")
      [] At(str, j) = DQ -> [ok |-> TRUE, j |-> j + 1, val |-> acc]
      [] OTHER -> RefQuoted(str, j + 1, Append(acc, At(str, j)))

\* The value after "=": a quoted string or a ptoken.
RefValue(str, j0) ==
    LET j == skip_ws(str, j0)
        e == RunEnd(str, j, RfcPtokenChars)
    IN  CASE j < Len(str) /\ At(str, j) = DQ -> RefQuoted(str, j + 1, <<>>)
          [] e > j -> [ok |-> TRUE, j |-> e, val |-> SubSeq(str, j + 1, e)]
          [] OTHER -> RefErr(<<>>, "bad_value")

\* *( ";" link-param ) from j; ps maps names to values, the last wins.
RECURSIVE RefParams(_, _, _)
RefParams(str, j0, ps) ==
    LET j  == skip_ws(str, j0)
        n  == skip_ws(str, j + 1)
        ne == RunEnd(str, n, attr_char)
        m  == skip_ws(str, ne)
        v  == RefValue(str, m + 1)
        name == SubSeq(str, n + 1, ne)
    IN  CASE ~(j < Len(str) /\ At(str, j) = SEMI) ->
                [ok |-> TRUE, j |-> j, ps |-> ps]
          [] ne = n -> RefErr(<<>>, "bad_param")
          [] ~(m < Len(str) /\ At(str, m) = EQ) ->
                RefParams(str, ne, (name :> <<>>) @@ ps)
          [] ~v.ok -> v
          [] OTHER -> RefParams(str, v.j, (name :> v.val) @@ ps)

\* link-value *( "," link-value ) from j, after the values vs.
RECURSIVE RefLinks(_, _, _)
RefLinks(str, j0, vs) ==
    LET j == skip_ws(str, j0)
        e == find_chr(str, j + 1, GT)
        p == RefParams(str, e + 1, EmptyParams)
        vs2 == Append(vs, [link |-> SubSeq(str, j + 2, e), params |-> p.ps])
    IN  CASE j = Len(str) /\ vs = <<>> -> [ok |-> TRUE, vals |-> vs, err |-> "none"]
          [] ~(j < Len(str) /\ At(str, j) = LT) -> RefErr(vs, "junk")
          [] e < 0 -> RefErr(vs, "unterminated_link")
          [] ~p.ok -> RefErr(vs, p.err)
          [] p.j = Len(str) -> [ok |-> TRUE, vals |-> vs2, err |-> "none"]
          [] At(str, p.j) = COMMA -> RefLinks(str, p.j + 1, vs2)
          [] OTHER -> RefErr(vs2, "junk")

\* An empty header field is an empty list; "," must be followed by a value.
RefParse(str) ==
    IF skip_ws(str, 0) = Len(str) THEN [ok |-> TRUE, vals |-> <<>>, err |-> "none"]
    ELSE RefLinks(str, 0, <<>>)

-----------------------------------------------------------------------------
(***************************************************************************)
(* Properties                                                              *)
(***************************************************************************)
IsParams(ps) ==
    \A n \in DOMAIN ps : n \in Seq(STRING) /\ n # <<>> /\ ps[n] \in Seq(STRING)

LinkTypeOK ==
    /\ s \in Seq(STRING)
    /\ i \in 0..Len(s)
    /\ lpc \in {"link", "param", "add", "sep", "done"}
    /\ link \in Seq(STRING)
    /\ IsParams(params)
    /\ \A k \in 1..Len(values) :
          values[k].link \in Seq(STRING) /\ IsParams(values[k].params)

(***************************************************************************)
(* When inspect_link returns, it has handed add_push every link-value the  *)
(* grammar reads before the first malformed piece, in order, with the      *)
(* same target and the same parameter values (the last one for a repeated  *)
(* name); and for a well-formed header exactly those.  Malformed input may *)
(* only stop the scan: it never loses or alters an earlier link-value, and *)
(* a well-formed header is never cut short.                                *)
(***************************************************************************)
ReportsGrammarValues ==
    lpc = "done" =>
        LET r == RefParse(s)
        IN  /\ IsPrefix(r.vals, values)
            /\ r.err = "none" => values = r.vals

(***************************************************************************)
(* A link-value with an unterminated quoted string is abandoned (the       *)
(* design's error handling of the parser): add_push is never called for    *)
(* it.  The code's read_qstring consumes the opening quote before it finds *)
(* no closing one, and read_pvalue then reads the rest as a ptoken.        *)
(***************************************************************************)
QuoteAbandoned ==
    (lpc = "done" /\ RefParse(s).err = "unterminated_quote")
        => Len(values) <= Len(RefParse(s).vals)
=============================================================================
