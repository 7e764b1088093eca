------------------------------ MODULE Routing ------------------------------
(***************************************************************************)
(* What Host::handle of host.rs does with a request up to the point where  *)
(* a file or a script takes over: virtual host, heartbeat, document root,  *)
(* path, content negotiation.  One action per stage with its early         *)
(* returns; the last stage gives the static file to files.rs (StaticFiles) *)
(* or the script to cgi.rs (CgiScript).                                    *)
(*                                                                         *)
(* A path is a sequence of names.  The tree of files does not change while *)
(* a request is routed; links point to paths without links.                *)
(***************************************************************************)
EXTENDS Naturals, Sequences, SequencesExt, FiniteSetsExt

CONSTANTS
    Tree,      \* path -> [kind : Kinds, to : what a link points to]
    Configs,   \* configurations: sequences of [name, root] virtual hosts
    Requests,  \* [get, host, mobile, names, slash, overloaded] records
    None       \* no header, no directive, no path

Kinds == {"dir", "file", "script", "link"}

ASSUME TreeAssumption ==
    /\ <<>> \in DOMAIN Tree /\ Tree[<<>>].kind = "dir"
    /\ None \notin DOMAIN Tree
    /\ \A p \in DOMAIN Tree :
          /\ p \in Seq(STRING) /\ ".." \notin Range(p)
          /\ Tree[p].kind \in Kinds
          /\ p # <<>> => Front(p) \in DOMAIN Tree /\ Tree[Front(p)].kind = "dir"
          /\ Tree[p].kind = "link" /\ Tree[p].to \in DOMAIN Tree =>
                Tree[Tree[p].to].kind # "link"

ASSUME ConfigsAssumption ==
    \A c \in Configs :
        /\ c \in Seq(Range(c))
        /\ \A i \in 1..Len(c) : c[i].root # None => c[i].root \in Seq(STRING)

ASSUME RequestsAssumption == \A r \in Requests : r.names \in Seq(STRING)

VARIABLES
    hosts,    \* server_config.virtual_hosts
    request,  \* [get, host, mobile, names, slash, overloaded]
    pc,       \* the stage handle_result is in
    vhost,    \* `virtual_host`, an index of hosts
    root,     \* `document_root`
    path,     \* `path` of the RequestTarget, then of what is served
    answer    \* [status, path]; "file" and "script" where others take over
vars == <<hosts, request, pc, vhost, root, path, answer>>

NoAnswer == [status |-> "none", path |-> None]

Init ==
    /\ hosts \in Configs
    /\ request \in Requests
    /\ pc = "host" /\ vhost = 0 /\ root = None /\ path = None
    /\ answer = NoAnswer
-----------------------------------------------------------------------------
(* The file system.                                                        *)

\* What `name` is in the directory p, with links followed; None if nothing.
Entry(p, name) ==
    LET child == Append(p, name)
    IN  CASE p = None \/ (p # None /\ Tree[p].kind # "dir") -> None
          [] p # None /\ Tree[p].kind = "dir" ->
             CASE name = ".." -> IF p = <<>> THEN p ELSE Front(p)
               [] name # ".." /\ child \notin DOMAIN Tree -> None
               [] name # ".." /\ child \in DOMAIN Tree ->
                    CASE Tree[child].kind # "link" -> child
                      [] Tree[child].kind = "link" ->
                           IF Tree[child].to \in DOMAIN Tree THEN Tree[child].to ELSE None

\* Path::canonicalize of p joined with names.
Canonical(p, names) ==
    LET at[i \in 0..Len(names)] ==
            IF i = 0 THEN p ELSE Entry(at[i - 1], names[i])
    IN  at[Len(names)]
-----------------------------------------------------------------------------
(* The stages.                                                             *)

Return(status, p) == /\ answer' = [status |-> status, path |-> p]
                     /\ pc' = "end"
                     /\ UNCHANGED <<hosts, request>>

Goto(stage) == pc' = stage /\ UNCHANGED <<hosts, request, answer>>

\* Mutant: the last of several hosts of a name, and the last of all for none.
LastVirtualHost(name) ==
    LET named == {i \in 1..Len(hosts) : hosts[i].name = name}
    IN  IF named = {} THEN Len(hosts) ELSE Max(named)

\* get_virtual_host: the first of that name, else the first of all.
VirtualHost(name) ==
    LET named == {i \in 1..Len(hosts) : hosts[i].name = name}
    IN  IF named = {} THEN 1 ELSE Min(named)

FindHost ==
    /\ pc = "host"
    /\ CASE request.host = None ->
              Return("400", None) /\ UNCHANGED vhost
         [] request.host # None /\ hosts = <<>> ->
              Return("panic", None) /\ UNCHANGED vhost
         [] request.host # None /\ hosts # <<>> ->
              Goto("load") /\ vhost' = VirtualHost(request.host)
    /\ UNCHANGED <<root, path>>

\* GET /load, whatever the virtual host.
Heartbeat ==
    /\ pc = "load"
    /\ IF request.get /\ request.names = <<"load">> /\ ~request.slash
       THEN Return(IF request.overloaded THEN "503" ELSE "200", None)
       ELSE Goto("root")
    /\ UNCHANGED <<vhost, root, path>>

\* path::Path::new(document_root).canonicalize().ok()
RootOf(p) == Canonical(<<>>, p)

DocumentRoot ==
    LET configured == hosts[vhost].root
        r == IF configured = None THEN None ELSE RootOf(configured)
    IN  /\ pc = "root"
        /\ IF r = None THEN Return("500", None) ELSE Goto("path")
        /\ root' = r
        /\ UNCHANGED <<vhost, path>>

\* Mutant: the path is compared before it is canonicalized.
UnderWrittenRoot(p) == IsPrefix(root, root \o request.names)

\* path.starts_with(root_path)
UnderRoot(p) == IsPrefix(root, p)

\* Path::canonicalize: what a slash follows has to be a directory.
Target ==
    LET p == Canonical(root, request.names)
    IN  IF p # None /\ request.slash /\ Tree[p].kind # "dir" THEN None ELSE p

ParsePath ==
    LET p == Target
    IN  /\ pc = "path"
        /\ CASE p = None -> Return("404", None) /\ UNCHANGED path
             [] p # None /\ ~UnderRoot(p) -> Return("403", None) /\ UNCHANGED path
             [] p # None /\ UnderRoot(p) -> Goto("method") /\ path' = p
        /\ UNCHANGED <<vhost, root>>

\* content_negotiation: the index page of a target that ends in "/".
Negotiated ==
    LET mobile == Entry(path, "index_m.html")
    IN  CASE ~request.slash -> path
          [] request.slash /\ request.mobile /\ mobile # None -> mobile
          [] request.slash /\ ~(request.mobile /\ mobile # None) ->
                Entry(path, "index.html")

Get ==
    LET p == Negotiated
    IN  /\ pc = "method" /\ request.get
        /\ CASE p = None -> Return("404", None)
             [] p # None -> CASE Tree[p].kind = "dir" -> Return("404", None)
                              [] Tree[p].kind # "dir" -> Return(Tree[p].kind, p)
        /\ UNCHANGED <<vhost, root, path>>

\* Whatever the path is, it is run: spawn may fail (CgiScript).
Post ==
    /\ pc = "method" /\ ~request.get
    /\ Return("script", path)
    /\ UNCHANGED <<vhost, root, path>>

Next == FindHost \/ Heartbeat \/ DocumentRoot \/ ParsePath \/ Get \/ Post

-----------------------------------------------------------------------------
(* Properties.                                                             *)

\* The first virtual host the configuration has for the request.
Chosen == CHOOSE i \in 1..Len(hosts) :
    LET fits(j) == hosts[j].name = request.host
                   \/ ~\E k \in 1..Len(hosts) : hosts[k].name = request.host
    IN  fits(i) /\ \A j \in 1..(i - 1) : ~fits(j)

\* The directory its document root is, None if there is none.
OwnRoot == IF hosts[Chosen].root = None THEN None ELSE RootOf(hosts[Chosen].root)

IsIndexLink(p) == \E d \in DOMAIN Tree, n \in {"index.html", "index_m.html"} :
                      /\ IsPrefix(OwnRoot, d)
                      /\ d \o <<n>> \in DOMAIN Tree
                      /\ Tree[d \o <<n>>].kind = "link" /\ Tree[d \o <<n>>].to = p

Served == answer.status \in {"file", "script"}

(* What is served lies below the document root of the virtual host asked   *)
(* for, whatever "..", links and roots that are links do on the way; only  *)
(* an index page may be a link that leads elsewhere, as content            *)
(* negotiation looks at it after the path is checked (host.rs:130-172).    *)
ServedBelowRoot ==
    Served => IsPrefix(OwnRoot, answer.path) \/ (request.slash /\ IsIndexLink(answer.path))

(* Every file below the document root is answered under its own name, and  *)
(* no other virtual host's file of that name is: except that "/load" is    *)
(* the heartbeat's (host.rs:50-61, 152-161).                               *)
OwnFilesReachable ==
    LET f == OwnRoot \o request.names
    IN  /\ pc = "end" /\ request.get /\ request.host # None /\ hosts # <<>>
        /\ ~request.slash /\ request.names # <<"load">>
        /\ OwnRoot # None /\ f \in DOMAIN Tree /\ Tree[f].kind = "file"
        => answer = [status |-> "file", path |-> f]
=============================================================================
