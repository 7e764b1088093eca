---------------------------- MODULE MCHostHandler ----------------------------
(* HostHandler for TLC: two document roots beside each other, the first    *)
(* also reached by a link, with pages, a script, directories, links to the *)
(* inside and the outside; all targets of up to three names.  Dates of all *)
(* months, the first and last days and those beyond, leap years and        *)
(* others, times at their bounds, in requests for one page and one script. *)
EXTENDS HostHandler, TLC

File == [kind |-> "file", to |-> <<>>]
Dir == [kind |-> "dir", to |-> <<>>]
Script == [kind |-> "script", to |-> <<>>]
Link(p) == [kind |-> "link", to |-> p]

ATree ==
    <<>> :> Dir @@ <<"srv">> :> Link(<<"www">>)
    @@ <<"www">> :> Dir @@ <<"www", "index.html">> :> File
    @@ <<"www", "index_m.html">> :> File @@ <<"www", "load">> :> File
    @@ <<"www", "run">> :> Script
    @@ <<"www", "out">> :> Link(<<"other", "index.html">>)
    @@ <<"www", "gone">> :> Link(<<"nowhere">>)
    @@ <<"www", "d">> :> Dir @@ <<"www", "d", "index.html">> :> File
    @@ <<"www", "d", "load">> :> File
    @@ <<"other">> :> Dir @@ <<"other", "index.html">> :> File
    @@ <<"other", "d">> :> Dir
    @@ <<"other", "d", "index.html">> :> Link(<<"www", "index.html">>)

AllConfigs ==
    LET h(n, r) == [name |-> n, root |-> r]
    IN  {<<>>,
         <<h("w", <<"srv">>), h("o", <<"other">>)>>,
         <<h(None, <<"www">>), h("o", <<"other">>), h("o", <<"www", "d">>)>>,
         <<h("w", None), h("o", <<"nowhere">>)>>}

AllRequests ==
    [get : BOOLEAN, host : {"w", "o", "x", None}, mobile : BOOLEAN, overloaded : BOOLEAN,
     slash : BOOLEAN,
     names : SeqOf({"..", "www", "other", "d", "out", "gone", "run", "load", "index.html"}, 3)]

Routed == {r \in AllRequests : /\ r.overloaded => r.names = <<"load">>
                              /\ r.mobile => r.slash}

AllDated == {r \in Routed : /\ r.get /\ r.host = "w" /\ ~r.slash /\ ~r.mobile /\ ~r.overloaded
                            /\ r.names \in {<<"index.html">>, <<"run">>}}

AllValues == [day : {0, 1, 9, 12, 28, 29, 30, 31, 32}, month : 1..12,
              year : {0, 1900, 1969, 1970, 2000, 2021, 2024},
              hour : {23, 24}, minute : {59, 60}, second : {5, 60}]

ADate == {[day |-> 12, month |-> 3, year |-> 2021, hour |-> 23, minute |-> 59, second |-> 5]}
=============================================================================
