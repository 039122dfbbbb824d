---------------------------- MODULE PushCollect ----------------------------
(***************************************************************************)
(* The push candidate builder of mod_http2 (h2_push.c: has_relation,       *)
(* has_param, same_authority, set_push_header, add_push, head_iter,        *)
(* h2_push_collect) composed with the Link-header scanner (LinkHeader) and *)
(* the push diary (PushDiary) into h2_push_collect_update: every response  *)
(* of a session is scanned for Link headers, the accepted link-values      *)
(* become push requests, and the diary filters them.                       *)
(*                                                                         *)
(* The triggering request is fixed: ReqScheme, ReqAuthority, and the names *)
(* of its headers.  Link targets are parsed by apr_uri_parse (APR, outside *)
(* this repository) into the parts the design names; UriParts gives them   *)
(* for the URI symbols used, every other target is a relative path.        *)
(***************************************************************************)
EXTENDS LinkHeader, PushDiary

CONSTANTS
    NULL,         \* an absent URI part or header
    ReqScheme,    \* req->scheme
    ReqAuthority, \* req->authority
    ReqHeaders,   \* the names of req->headers
    UriParts,     \* apr_uri_parse of a one-symbol target: [ok, scheme, hostinfo, path]
    Responses,    \* response header tables: sequences of <<name, value>>
    Policies      \* stream->push_policy values, as policy_str names them

VARIABLES
    cpc,          \* "idle", "iter" (apr_table_do(head_iter)), "update"
    resp,         \* res->headers of the current response
    policy,       \* stream->push_policy
    hk,           \* the header head_iter visits next
    collected,    \* ctx.pushes (<<>> is NULL)
    policyHdr,    \* the "push-policy" response header, NULL if not set
    sent          \* history: the pushes h2_push_collect_update returned so far

collectVars == <<cpc, resp, policy, hk, collected, policyHdr>>
vars == <<linkVars, diaryVars, collectVars, sent>>

\* policy_str
policy_str(p) == IF p \in {"none", "fast-load", "head"} THEN p ELSE "default"

\* apr_uri_parse(pool, ctx->link, &uri)
apr_uri_parse(l) ==
    IF Len(l) = 1 /\ l[1] \in DOMAIN UriParts THEN UriParts[l[1]]
    ELSE [ok |-> TRUE, scheme |-> NULL, hostinfo |-> NULL,
          path |-> IF l = <<>> THEN NULL ELSE l]

\* The request header names set_push_header copies (H2_HD_MATCH_LIT).
PushHeaderNames ==
    {"User-Agent", "Accept", "Accept-Encoding", "Accept-Language", "Cache-Control"}

\* apr_table_do(set_push_header, headers, ctx->req->headers)
set_push_header(hs) == hs \cap PushHeaderNames

\* has_param: apr_table_get(ctx->params, param) != NULL
has_param(ps, p) == p \in DOMAIN ps

(***************************************************************************)
(* has_relation: the rel value equals rel, or its FIRST occurrence (strstr)*)
(* starts the value or follows a space, and ends it or precedes a space.   *)
(***************************************************************************)
has_relation(ps, rel) ==
    LET val  == ps[<<"rel">>]
        occ  == {k \in 1..(Len(val) - Len(rel) + 1) :
                    SubSeq(val, k, k + Len(rel) - 1) = rel}
        k    == Min(occ)
        after == k + Len(rel)
    IN  /\ has_param(ps, <<"rel">>)
        /\ \/ val = rel
           \/ /\ occ # {}
              /\ k = 1 \/ val[k - 1] = SP
              /\ after > Len(val) \/ val[after] = SP

\* same_authority with the hostinfo comparison left out.
SameAuthoritySchemeOnly(uri) ==
    uri.scheme = NULL \/ uri.scheme = ReqScheme

\* same_authority(ctx->req, &uri)
same_authority(uri) ==
    /\ uri.scheme = NULL \/ uri.scheme = ReqScheme
    /\ uri.hostinfo = NULL \/ uri.hostinfo = ReqAuthority

\* The h2_push add_push builds for link l with parameters ps: h2_request_create
\* with the request's scheme and authority and the path with the site part
\* omitted; HEAD under H2_PUSH_HEAD; H2_DEPENDANT_BEFORE if "critical".
\* add_push unparsing the whole URI (APR_URI_UNP_OMITSITEPART left out).
MkPushFullUri(l, ps, pol) ==
    [method    |-> IF pol = "head" THEN "HEAD" ELSE "GET",
     scheme    |-> ReqScheme,
     authority |-> ReqAuthority,
     path      |-> l,
     headers   |-> set_push_header(ReqHeaders),
     critical  |-> has_param(ps, <<"critical">>)]

MkPush(l, ps, pol) ==
    [method    |-> IF pol = "head" THEN "HEAD" ELSE "GET",
     scheme    |-> ReqScheme,
     authority |-> ReqAuthority,
     path      |-> apr_uri_parse(l).path,
     headers   |-> set_push_header(ReqHeaders),
     critical  |-> has_param(ps, <<"critical">>)]

\* add_push: the pushes after link l with parameters ps has been inspected.
add_push(pushes0, l, ps, pol) ==
    LET uri == apr_uri_parse(l)
    IN  IF /\ has_relation(ps, <<"preload">>)
           /\ ~has_param(ps, <<"nopush">>)
           /\ uri.ok
           /\ uri.path # NULL
           /\ same_authority(uri)
        THEN Append(pushes0, MkPush(l, ps, pol))
        ELSE pushes0

(***************************************************************************)
(* h2_push_collect(p, req, push_policy, res): for a policy other than      *)
(* none, a zeroed link_ctx and apr_table_do(head_iter) over res->headers;  *)
(* otherwise NULL straight away.                                           *)
(***************************************************************************)
Collect ==
    \E r \in Responses, pol \in Policies :
        /\ cpc = "idle"
        /\ resp' = r /\ policy' = pol
        /\ collected' = <<>> /\ policyHdr' = NULL /\ hk' = 1
        /\ IF pol # "none"
           THEN /\ cpc' = "iter"
                /\ link' = <<>> /\ params' = EmptyParams
           ELSE /\ cpc' = "update"
                /\ UNCHANGED <<link, params>>
        /\ UNCHANGED <<s, i, lpc, values, diaryVars>>

\* The field name head_iter matches with apr_strnatcasecmp("link", key).
IsLinkField(name) == name \in {"link", "Link", "LINK"}

\* head_iter on a Link field: inspect_link(ctx, value, strlen(value)).
HeadIterLink ==
    /\ cpc = "iter" /\ lpc = "done" /\ hk <= Len(resp)
    /\ IsLinkField(resp[hk][1])
    /\ inspect_link(resp[hk][2])
    /\ hk' = hk + 1
    /\ UNCHANGED <<link, params, values, diaryVars, cpc, resp, policy,
                   collected, policyHdr>>

\* head_iter on any other field.
HeadIterOther ==
    /\ cpc = "iter" /\ lpc = "done" /\ hk <= Len(resp)
    /\ ~IsLinkField(resp[hk][1])
    /\ hk' = hk + 1
    /\ UNCHANGED <<linkVars, diaryVars, cpc, resp, policy, collected, policyHdr>>

\* The scan's add_push call (in place of LinkHeader's LinkValue).
AddPush ==
    /\ lpc = "add"
    /\ collected' = add_push(collected, link, params, policy)
    /\ lpc' = "sep"
    /\ UNCHANGED <<s, i, link, params, values, diaryVars, cpc, resp, policy,
                   hk, policyHdr>>

\* Every other step of inspect_link.
Scan ==
    /\ cpc = "iter"
    /\ (ReadLink \/ ReadLinkFails \/ ReadParam \/ ParamsEnd \/ ReadSep \/ SepEnd)
    /\ UNCHANGED <<diaryVars, collectVars>>

\* After the last header: the push-policy header if anything was collected.
CollectDone ==
    /\ cpc = "iter" /\ lpc = "done" /\ hk > Len(resp)
    /\ policyHdr' = IF collected # <<>> THEN policy_str(policy) ELSE policyHdr
    /\ cpc' = "update"
    /\ UNCHANGED <<linkVars, diaryVars, resp, policy, hk, collected>>

\* h2_push_collect_update: h2_push_diary_update(stream->session, pushes).
DiaryUpdate ==
    /\ cpc = "update"
    /\ h2_push_diary_update(collected)
    /\ sent' = sent \cup ToSet(npushes')
    /\ cpc' = "idle"
    /\ UNCHANGED <<diaryOn, N, linkVars, resp, policy, hk, collected, policyHdr>>

CollectInit ==
    /\ Init
    /\ s = <<>> /\ i = 0 /\ lpc = "done"
    /\ link = <<>> /\ params = EmptyParams /\ values = <<>>
    /\ cpc = "idle" /\ resp = <<>> /\ policy = "none" /\ hk = 1
    /\ collected = <<>> /\ policyHdr = NULL
    /\ sent = {}

CollectNext ==
    \/ (\/ Collect \/ HeadIterLink \/ HeadIterOther \/ AddPush \/ Scan
        \/ CollectDone) /\ UNCHANGED sent
    \/ DiaryUpdate

CollectSpec == CollectInit /\ [][CollectNext]_vars

-----------------------------------------------------------------------------
(***************************************************************************)
(* What the design promises of collection (the builder's contract): over   *)
(* the Link fields in order and the link-values of each as the grammar     *)
(* reads them, one push for each value whose rel, read as a space-         *)
(* separated token list, contains "preload", that has no "nopush", whose   *)
(* target has a path, and whose scheme and hostinfo, where given, are the  *)
(* request's; none at all under the policy "none".                         *)
(***************************************************************************)
\* tok is one of the space-separated tokens of the value v.
HasToken(v, tok) ==
    \E k \in 1..Len(v) :
        /\ v[k] = tok
        /\ k = 1 \/ v[k - 1] = SP
        /\ k = Len(v) \/ v[k + 1] = SP

DesignAccepts(lv) ==
    LET ps  == lv.params
        uri == apr_uri_parse(lv.link)
    IN  /\ <<"rel">> \in DOMAIN ps /\ HasToken(ps[<<"rel">>], "preload")
        /\ <<"nopush">> \notin DOMAIN ps
        /\ uri.ok /\ uri.path # NULL
        /\ uri.scheme \in {NULL, ReqScheme}
        /\ uri.hostinfo \in {NULL, ReqAuthority}

DesignPush(lv, pol) ==
    [method    |-> IF pol = "head" THEN "HEAD" ELSE "GET",
     scheme    |-> ReqScheme,
     authority |-> ReqAuthority,
     path      |-> apr_uri_parse(lv.link).path,
     headers   |-> ReqHeaders \cap PushHeaderNames,
     critical  |-> <<"critical">> \in DOMAIN lv.params]

LinkValuesOf(r) ==
    FlattenSeq([k \in 1..Len(r) |->
                   IF IsLinkField(r[k][1]) THEN RefParse(r[k][2]).vals ELSE <<>>])

DesignPushes(r, pol) ==
    LET lvs == LinkValuesOf(r)
    IN  IF pol = "none" THEN <<>>
        ELSE FlattenSeq([k \in 1..Len(lvs) |->
                            IF DesignAccepts(lvs[k]) THEN <<DesignPush(lvs[k], pol)>>
                            ELSE <<>>])

\* Every Link field of the response is well formed.
WellFormedResponse(r) ==
    \A k \in 1..Len(r) : IsLinkField(r[k][1]) => RefParse(r[k][2]).err = "none"

-----------------------------------------------------------------------------
(***************************************************************************)
(* Properties                                                              *)
(***************************************************************************)
CollectTypeOK ==
    /\ cpc \in {"idle", "iter", "update"}
    /\ policy \in Policies
    /\ hk \in 1..(Len(resp) + 1)
    /\ collected \in Seq(Resources)
    /\ policyHdr \in {NULL, "fast-load", "head", "default"}

(***************************************************************************)
(* When h2_push_collect returns, for a response whose Link fields are well *)
(* formed, its array holds exactly the pushes the design promises, in scan *)
(* order: the same-authority check, the rel token test of has_relation,    *)
(* nopush, the path test, the method and the critical priority, over the   *)
(* parameters and link-value boundaries the scanner found across several   *)
(* Link fields that share one link_ctx.                                    *)
(***************************************************************************)
CollectMatchesDesign ==
    (cpc = "update" /\ WellFormedResponse(resp))
        => collected = DesignPushes(resp, policy)

(***************************************************************************)
(* Suppression across responses: a candidate that h2_push_diary_update     *)
(* drops has the hash of a push returned earlier on this connection; the   *)
(* diary never withholds a candidate on a hash nobody was sent.  Identity  *)
(* is the hash only: a colliding URL, or the same URL pushed earlier with  *)
(* another method (HEAD under the head policy), is enough to suppress.     *)
(***************************************************************************)
SuppressedWereSent ==
    \A c \in ToSet(pushes) \ ToSet(npushes) : \E r \in sent : Hash(r) = Hash(c)
=============================================================================
