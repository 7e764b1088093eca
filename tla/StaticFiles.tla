---------------------------- MODULE StaticFiles ----------------------------
(***************************************************************************)
(* Static files: handle_get of host.rs once it has a path that is neither  *)
(* a directory nor executable, and files.rs.  Every Host has a cache of    *)
(* its own; while a request looks at the file system in up to four steps,  *)
(* files are replaced and removed.  Clients ask with the date of a copy    *)
(* they have been given.                                                   *)
(*                                                                         *)
(* Times of files are ticks, dates on the wire are seconds.  The content   *)
(* of a file is the number of the write that made it; a file rewritten in  *)
(* place is a write for every content a reader can see.                    *)
(***************************************************************************)
EXTENDS Naturals, Sequences, FiniteSets

CONSTANTS
    Host,            \* the Hosts: one for each worker of the pool, or one
    Path,            \* the paths requested
    TicksPerSecond,
    NoDate,          \* the request has no If-Modified-Since
    MaxClock,        \* bound: ticks
    MaxWrites        \* bound: writes

ASSUME ConstantsAssumption ==
    /\ TicksPerSecond \in Nat \ {0}
    /\ {MaxClock, MaxWrites} \subseteq Nat
    /\ NoDate \notin Nat

VARIABLES
    perRequest, \* a new Host for every connection, as in select.rs
    clock,    \* now, in ticks
    writes,   \* writes[v]: time and kind of the content write v made
    disk,     \* disk[p]: the write path p holds, Absent if there is no file
    cache,    \* cache[h]: the HashMap, path -> (content, modified)
    request,  \* request[h]: the request h handles, and in `pc` how far it is;
              \* `copy` is the set that holds the client's copy, if it has one;
              \* `onDisk` are the contents of the path since the request came
    answer,   \* what the last step answered, if anything: [status, version]
    copies    \* the 200 responses clients hold: [host, path, version, date]
vars == <<perRequest, clock, writes, disk, cache, request, answer, copies>>

Absent == 0
Second(t) == t \div TicksPerSecond
Time(v) == writes[v].time

Date == 0..MaxClock

NoAnswer == [status |-> "none", version |-> Absent]
Silent == answer' = NoAnswer

EmptyCache == [p \in {} |-> Absent]
NoRequest == [pc |-> "idle", path |-> CHOOSE p \in Path : TRUE, since |-> NoDate,
              copy |-> {}, content |-> Absent, onDisk |-> {}]

Init ==
    /\ perRequest \in BOOLEAN
    /\ clock = 0
    /\ writes = <<>>
    /\ disk = [p \in Path |-> Absent]
    /\ cache = [h \in Host |-> EmptyCache]
    /\ request = [h \in Host |-> NoRequest]
    /\ answer = NoAnswer
    /\ copies = {}
-----------------------------------------------------------------------------
(* The file system.                                                        *)

Tick == /\ clock < MaxClock
        /\ clock' = clock + 1
        /\ Silent
        /\ UNCHANGED <<perRequest, writes, disk, cache, request, copies>>

\* A path holds another content: requests under way may have seen both.
Put(p, v) ==
    /\ disk' = [disk EXCEPT ![p] = v]
    /\ request' = [h \in Host |->
           IF request[h].path = p /\ request[h].pc \notin {"idle", "panicked"}
           THEN [request[h] EXCEPT !.onDisk = @ \cup {v}] ELSE request[h]]
    /\ Silent
    /\ UNCHANGED <<perRequest, clock, cache, copies>>

Write(p, t, utf8) ==
    /\ Len(writes) < MaxWrites
    /\ writes' = Append(writes, [time |-> t, utf8 |-> utf8])
    /\ Put(p, Len(writes) + 1)

Remove(p) ==
    /\ disk[p] # Absent
    /\ Put(p, Absent)
    /\ UNCHANGED writes
-----------------------------------------------------------------------------
(* A request.                                                              *)

Goto(h, pc) == /\ request' = [request EXCEPT ![h].pc = pc]
               /\ Silent
               /\ UNCHANGED <<perRequest, clock, writes, disk, cache, copies>>

\* Mutant: the workers share what one of them has cached.
CacheOfAnother(h) ==
    IF \E g \in Host \ {h} : cache[g] # EmptyCache
    THEN cache[CHOOSE g \in Host \ {h} : cache[g] # EmptyCache]
    ELSE cache[h]

\* The cache a new request finds: empty if its connection made the Host.
CacheFound(h) == IF perRequest THEN EmptyCache ELSE cache[h]

Ask(h, p, since, copy) ==
    /\ request[h].pc = "idle"
    /\ request' = [request EXCEPT ![h] =
           [pc |-> "stat", path |-> p, since |-> since, copy |-> copy,
            content |-> Absent, onDisk |-> {disk[p]}]]
    /\ cache' = [cache EXCEPT ![h] = CacheFound(h)]
    /\ Silent
    /\ UNCHANGED <<perRequest, clock, writes, disk, copies>>

Respond(h, status, v) ==
    /\ request' = [request EXCEPT ![h] = NoRequest]
    /\ answer' = [status |-> status, version |-> v]
    /\ UNCHANGED <<perRequest, clock, writes, disk>>

Fail(h, status) == /\ Respond(h, status, Absent)
                   /\ UNCHANGED <<cache, copies>>

\* Mutant: the date is rounded up.
DateRoundedUp(t) == Second(t + TicksPerSecond - 1)

\* Last-Modified: as_secs cuts the fraction off.
LastModified(t) == Second(t)

\* 200 with this content and date (files.rs:69-103).
Serve(h, v, t) ==
    /\ Respond(h, "200", v)
    /\ copies' = copies \cup {[host |-> h, path |-> request[h].path,
                               version |-> v, date |-> LastModified(t)]}

\* canonicalize of parse_path and metadata of content_negotiation.
Stat(h) ==
    /\ request[h].pc = "stat"
    /\ IF disk[request[h].path] = Absent
       THEN Fail(h, "404")
       ELSE Goto(h, IF request[h].since = NoDate THEN "content" ELSE "condition")

\* Mutant: a second more is taken for unmodified.
ModifiedLater(t, since) == Second(t - since * TicksPerSecond) > 1

\* (duration - start).as_secs() > 0
ModifiedSince(t, since) == Second(t - since * TicksPerSecond) > 0

\* Duration subtraction panics below zero.
DateInFuture(h, v) == Time(v) < request[h].since * TicksPerSecond

\* Files::modified_since(..).unwrap_or(true)
Condition(h) ==
    LET v == disk[request[h].path] IN
    /\ request[h].pc = "condition"
    /\ CASE v = Absent -> Goto(h, "content")
         [] v # Absent /\ DateInFuture(h, v) -> Goto(h, "panicked")
         [] v # Absent /\ ~DateInFuture(h, v) ->
                IF ModifiedSince(Time(v), request[h].since)
                THEN Goto(h, "content")
                ELSE Respond(h, "304", v) /\ UNCHANGED <<cache, copies>>

\* get_content finds the path in the cache.
CacheHit(h) ==
    /\ request[h].pc = "content"
    /\ request[h].path \in DOMAIN cache[h]
    /\ LET file == cache[h][request[h].path] IN Serve(h, file.version, file.time)
    /\ UNCHANGED cache

\* get_content does not, and reads the file.
CacheMiss(h) ==
    LET v == disk[request[h].path] IN
    /\ request[h].pc = "content"
    /\ request[h].path \notin DOMAIN cache[h]
    /\ CASE v = Absent -> Fail(h, "404")
         [] v # Absent /\ ~writes[v].utf8 -> Fail(h, "500")
         [] v # Absent /\ writes[v].utf8 ->
                /\ request' = [request EXCEPT ![h].pc = "date", ![h].content = v]
                /\ Silent
                /\ UNCHANGED <<perRequest, clock, writes, disk, cache, copies>>

\* What is inserted in the cache, at the time path.metadata() is called.
Insert(h) == [version |-> request[h].content, time |-> Time(disk[request[h].path])]

\* path.metadata().unwrap(): panics if the file is gone; insert; answer.
ReadDate(h) ==
    /\ request[h].pc = "date"
    /\ IF disk[request[h].path] = Absent
       THEN Goto(h, "panicked")
       ELSE LET p == request[h].path
                file == Insert(h)
            IN  /\ cache' = [cache EXCEPT ![h] =
                       [q \in DOMAIN @ \cup {p} |-> IF q = p THEN file ELSE @[q]]]
                /\ Serve(h, file.version, file.time)

Handle(h) == Stat(h) \/ Condition(h) \/ CacheHit(h) \/ CacheMiss(h) \/ ReadDate(h)

Next ==
    \/ Tick
    \/ \E p \in Path : \/ \E t \in 0..clock, u \in BOOLEAN : Write(p, t, u)
                       \/ Remove(p)
    \/ \E h \in Host : \/ Handle(h)
                       \/ \E p \in Path :
                             \/ Ask(h, p, NoDate, {})
                             \/ \E d \in Date : Ask(h, p, d, {})
                       \/ \E c \in copies : Ask(h, c.path, c.date, {c})

Spec == Init /\ [][Next]_vars
-----------------------------------------------------------------------------
(* Properties.                                                             *)

(* "304 Not Modified" is only said of a copy that is still the file's      *)
(* content, with two exceptions: the file was replaced within the second   *)
(* of the copy's date, or the copy's date is not its content's, because    *)
(* the file was replaced between read_to_string and metadata when the copy *)
(* was made (files.rs:52-54, 106-111).                                     *)
NotModifiedIsHonest ==
    [][\A h \in Host :
          request[h].pc = "condition" /\ request'[h].pc = "idle" =>
              \A c \in request[h].copy :
                  LET v == disk[c.path]
                  IN  \/ v = c.version
                      \/ Second(Time(v)) = Second(Time(c.version))
                      \/ c.date # Second(Time(c.version))]_vars

(* The content of a 200 was in the file while the request was handled, or  *)
(* the same Host, if it lives for more than a connection, has sent it      *)
(* before: a stale answer repeats an answer of the same worker.            *)
ContentFreshOrRepeated ==
    [][\A h \in Host :
          LET v == answer'.version IN
          request[h].pc \in {"content", "date"} /\ request'[h].pc = "idle"
              /\ answer'.status = "200" =>
                  \/ v \in request[h].onDisk
                  \/ /\ ~perRequest
                     /\ \E c \in copies : c.host = h /\ c.version = v
                                          /\ c.path = request[h].path]_vars

(* A panic on a static file takes one of three things: the file is gone    *)
(* between its content and its time (files.rs:54), a client gives a date   *)
(* that no answer gave, or a file is replaced by one with an earlier time  *)
(* (files.rs:110).  Clients that revalidate what they were sent never      *)
(* cause one otherwise, whichever worker sent it and however the file was  *)
(* rewritten meanwhile.                                                    *)
PanicHasCause ==
    \A h \in Host : request[h].pc = "panicked" =>
        \/ Absent \in request[h].onDisk
        \/ /\ request[h].since # NoDate
           /\ \E v \in request[h].onDisk \ {Absent} :
                 /\ DateInFuture(h, v)
                 /\ \/ request[h].copy = {}
                    \/ \E w \in 1..(v - 1) : Time(w) > Time(v)
=============================================================================
