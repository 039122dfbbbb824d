--------------------------- MODULE MCPushCollect ----------------------------
(***************************************************************************)
(* A session answering requests for https://self with responses whose Link *)
(* fields cover every branch of add_push: a plain and a quoted-list        *)
(* preload, nopush, another relation, a foreign host, another scheme, an   *)
(* unparsable target, a target without a path, critical; no, one or two   *)
(* link-values per field, one or two fields per response, and a non-Link   *)
(* field in between.                                                       *)
(***************************************************************************)
EXTENDS PushCollect


MCAlnum == {"x", "rel", "preload", "nopush", "critical"}

Uri(ok, sch, host, path) == [ok |-> ok, scheme |-> sch, hostinfo |-> host, path |-> path]

\* apr_uri_parse of the targets used (APR_EGENERAL for the non-numeric port).
MCUriParts ==
    ("/a" :> Uri(TRUE, NULL, NULL, <<"/a">>)) @@
    ("https://self/b" :> Uri(TRUE, "https", "self", <<"/b">>)) @@
    ("//evil/a" :> Uri(TRUE, NULL, "evil", <<"/a">>)) @@
    ("http://self/a" :> Uri(TRUE, "http", "self", <<"/a">>)) @@
    ("//self:x/a" :> Uri(FALSE, NULL, NULL, NULL)) @@
    ("//self" :> Uri(TRUE, NULL, "self", NULL))

Preload == <<SEMI, "rel", EQ, "preload">>
Target(u) == <<LT, u, GT>>

LvA == Target("/a") \o Preload
LvB == Target("https://self/b") \o <<SEMI, SP, "rel", EQ, DQ, "x", SP, "preload", DQ,
                                     SEMI, "critical">>
LvEvil == Target("//evil/a") \o Preload
LvHttp == Target("http://self/a") \o Preload
LvPort == Target("//self:x/a") \o Preload
LvNoPath == Target("//self") \o Preload
LvNopush == Target("x") \o Preload \o <<SEMI, "nopush">>
LvOther == Target("x") \o <<SEMI, "rel", EQ, "x">>

MCLinkValues == {LvA, LvB, LvEvil, LvHttp, LvPort, LvNoPath, LvNopush, LvOther}

MCFieldValues ==
    MCLinkValues \cup {LvA \o <<COMMA, SP>> \o LvB, LvEvil \o <<COMMA>> \o LvA}

MCResponses ==
    { <<<<"Link", v>>>> : v \in MCFieldValues } \cup
    { <<<<"Link", <<>>>>>>,
      <<<<"Server", <<"x">>>>, <<"link", LvA>>>>,
      <<<<"Link", LvNopush>>, <<"Link", LvB>>>> }

\* rel="xpreload preload": "preload" as a token, after an earlier substring.
MCTokenResponses ==
    { <<<<"Link", Target("/a") \o <<SEMI, "rel", EQ, DQ, "x", "preload", SP,
                                    "preload", DQ>> >>>> }

MCReqHeaders == {"User-Agent", "Cookie"}

MCPaths == {<<"/a">>, <<"/b">>, <<"x">>}

MCResources ==
    [method : {"GET", "HEAD"}, scheme : {"https"}, authority : {"self"},
     path : MCPaths, headers : {MCReqHeaders \cap PushHeaderNames},
     critical : BOOLEAN]

\* The diary hashes scheme://authority/path only, and /a and /b collide, as
\* two URLs can under either digest function.
MCDCalc == [r \in MCResources |-> IF r.path = <<"x">> THEN 3 ELSE 1]
=============================================================================
