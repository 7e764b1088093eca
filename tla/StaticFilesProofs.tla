-------------------------- MODULE StaticFilesProofs --------------------------
(***************************************************************************)
(* Proofs about StaticFiles, for any number of workers, paths and writes.  *)
(* They follow where contents and dates come from: what a request is about *)
(* to send has been on the disk since it came, what a cache holds was sent *)
(* before, and every date given out is that of a write the path held, no   *)
(* later than the one it holds now.                                        *)
(***************************************************************************)
EXTENDS StaticFiles, SequenceTheorems, TLAPS

(* Every request takes its steps from a file that may be absent: a request *)
(* at one of these is under way.                                           *)
Steps == {"stat", "condition", "content", "date"}
UnderWay(h) == request[h].pc \in Steps

Written == 1..Len(writes)
Copy == [host : Host, path : Path, version : Nat, date : Nat]
Request == [pc : Steps \cup {"idle", "panicked"}, path : Path \cup {NoRequest.path},
            since : Nat \cup {NoDate}, copy : SUBSET Copy, content : Nat,
            onDisk : SUBSET Nat]

FilesTyped ==
    /\ perRequest \in BOOLEAN /\ clock \in Nat
    /\ writes \in Seq([time : Nat, utf8 : BOOLEAN])
    /\ disk \in [Path -> {Absent} \cup Written]
    /\ DOMAIN cache = Host
    /\ request \in [Host -> Request]
    /\ copies \subseteq Copy
    /\ \A h \in Host : request[h].pc # "idle" => request[h].path \in Path

(* A date of write w was given to whoever asked for p: p held w, and no    *)
(* earlier write since.                                                    *)
NoLaterThan(w, p) == w \in Written /\ (disk[p] # Absent => w <= disk[p])

(* What a cache holds was sent by its own worker, with the time of a write.*)
SentBefore(h) == \A p \in DOMAIN cache[h] :
    /\ \E c \in copies : c.host = h /\ c.path = p /\ c.version = cache[h][p].version
    /\ \E w \in Written : NoLaterThan(w, p) /\ cache[h][p].time = Time(w)

CachedWasSent == \A h \in Host : SentBefore(h)

DatesOfWrites ==
    \A c \in copies : \E w \in Written : NoLaterThan(w, c.path)
                                         /\ c.date = Second(Time(w))

(* A request asks with the date of its copy, and remembers what the path   *)
(* has held since it came.                                                 *)
Knows(h) ==
    /\ UnderWay(h) => disk[request[h].path] \in request[h].onDisk
    /\ request[h].pc # "idle" =>
          /\ request[h].copy \subseteq copies
          /\ \A c \in request[h].copy :
                c.path = request[h].path /\ c.date = request[h].since
          /\ perRequest => DOMAIN cache[h] = {}
    /\ request[h].pc = "condition" => request[h].since # NoDate
    /\ request[h].pc = "date" => request[h].content \in request[h].onDisk
    /\ UnderWay(h) \/ request[h].pc = "panicked" =>
          request[h].onDisk \subseteq {Absent} \cup Written

RequestsKnow == \A h \in Host : Knows(h)

Cause(h) == request[h].pc = "panicked" =>
    \/ Absent \in request[h].onDisk
    \/ /\ request[h].since # NoDate
       /\ \E v \in request[h].onDisk \ {Absent} :
             /\ DateInFuture(h, v)
             /\ request[h].copy = {} \/ \E w \in 1..(v - 1) : Time(w) > Time(v)

FilesInv == /\ FilesTyped /\ CachedWasSent /\ DatesOfWrites /\ RequestsKnow
            /\ PanicHasCause
-----------------------------------------------------------------------------
(* Seconds.                                                                *)

(* The second of a time is the last one that has begun.                    *)
LEMMA SecondBegun ==
    ASSUME NEW t \in Nat
    PROVE  Second(t) \in Nat /\ Second(t) * TicksPerSecond <= t
<1>1. TicksPerSecond \in Nat \ {0}
  BY ConstantsAssumption
<1>2. t \div TicksPerSecond \in Nat /\ (t \div TicksPerSecond) * TicksPerSecond <= t
  BY <1>1, Z3
<1> QED BY <1>2 DEF Second

(* A file not modified since a second was written in it.                   *)
LEMMA UnmodifiedInSecond ==
    ASSUME NEW t \in Nat, NEW s \in Nat, ~(t < s * TicksPerSecond), ~ModifiedSince(t, s)
    PROVE  Second(t) = s
<1>1. TicksPerSecond \in Nat \ {0}
  BY ConstantsAssumption
<1>2. ~((t - s * TicksPerSecond) \div TicksPerSecond > 0)
  BY DEF ModifiedSince, Second
<1>3. s = t \div TicksPerSecond
  BY <1>1, <1>2, Z3
<1> QED BY <1>3 DEF Second
-----------------------------------------------------------------------------
(* The file system.                                                        *)

(* A path gets a content that no date has been given of: every date given  *)
(* before is of an earlier write.                                          *)
LEMMA PutKept ==
    ASSUME FilesInv, NEW p \in Path, NEW v \in Nat, Put(p, v),
           writes' \in Seq([time : Nat, utf8 : BOOLEAN]), Len(writes') \in Nat,
           Written \subseteq Written',
           \A w \in Written : writes'[w] = writes[w],
           v \in {Absent} \cup Written', v # Absent => v \notin Written
    PROVE  FilesInv'
<1>1. /\ disk' = [disk EXCEPT ![p] = v]
      /\ request' = [h \in Host |->
           IF request[h].path = p /\ request[h].pc \notin {"idle", "panicked"}
           THEN [request[h] EXCEPT !.onDisk = @ \cup {v}] ELSE request[h]]
      /\ UNCHANGED <<perRequest, clock, cache, copies>>
  BY DEF Put
<1>2. \A h \in Host :
         /\ request[h] \in Request /\ request'[h] \in Request
         /\ request'[h].pc = request[h].pc /\ request'[h].path = request[h].path
         /\ request'[h].since = request[h].since /\ request'[h].copy = request[h].copy
         /\ request'[h].content = request[h].content
         /\ request'[h].onDisk = request[h].onDisk
               \cup (IF request[h].path = p /\ UnderWay(h) THEN {v} ELSE {})
  <2> TAKE h \in Host
  <2>1. request[h] \in Request
    BY DEF FilesInv, FilesTyped
  <2>2. UnderWay(h) <=> request[h].pc \notin {"idle", "panicked"}
    BY <2>1 DEF UnderWay, Request, Steps
  <2>3. CASE request[h].path = p /\ UnderWay(h)
    <3>1. request'[h] = [request[h] EXCEPT !.onDisk = @ \cup {v}]
      BY <1>1, <2>2, <2>3
    <3>2. request[h].onDisk \cup {v} \in SUBSET Nat
      BY <2>1 DEF Request
    <3> QED BY <2>1, <2>3, <3>1, <3>2 DEF Request
  <2>4. CASE ~(request[h].path = p /\ UnderWay(h))
    <3>1. request'[h] = request[h]
      BY <1>1, <2>2, <2>4
    <3> QED BY <2>1, <2>4, <3>1
  <2> QED BY <2>3, <2>4
<1>3. FilesTyped'
  <2>1. disk' \in [Path -> {Absent} \cup Written']
    BY <1>1 DEF FilesInv, FilesTyped
  <2>2. request' \in [Host -> Request]
    BY <1>1, <1>2
  <2> QED BY <1>1, <1>2, <2>1, <2>2 DEF FilesInv, FilesTyped
<1>4. \A w, q : q \in Path /\ NoLaterThan(w, q) => NoLaterThan(w, q)' /\ Time(w)' = Time(w)
  <2> SUFFICES ASSUME NEW w, NEW q \in Path, NoLaterThan(w, q)
               PROVE  NoLaterThan(w, q)' /\ Time(w)' = Time(w)
    OBVIOUS
  <2>1. w \in Written /\ w \in Written' /\ w \in 1..Len(writes) /\ Len(writes) \in Nat
    BY LenProperties DEF NoLaterThan, FilesInv, FilesTyped, Written
  <2>2. v # Absent => v > Len(writes)
    BY <2>1 DEF Written
  <2>3. disk'[q] # Absent => w <= disk'[q]
    BY <1>1, <2>1, <2>2 DEF NoLaterThan, FilesInv, FilesTyped, Absent
  <2> QED BY <2>1, <2>3 DEF NoLaterThan, Time
<1>5. CachedWasSent' /\ DatesOfWrites'
  <2>1. \A h \in Host : \A q \in DOMAIN cache[h] : q \in Path
    BY DEF FilesInv, CachedWasSent, SentBefore, FilesTyped, Copy
  <2>2. \A c \in copies : c.path \in Path
    BY DEF FilesInv, FilesTyped, Copy
  <2>3. CachedWasSent'
    BY <1>1, <1>4, <2>1 DEF FilesInv, CachedWasSent, SentBefore, NoLaterThan
  <2>4. DatesOfWrites'
    BY <1>1, <1>4, <2>2 DEF FilesInv, DatesOfWrites, NoLaterThan
  <2> QED BY <2>3, <2>4
<1>6. RequestsKnow'
  <2> SUFFICES ASSUME NEW h \in Host PROVE Knows(h)'
    BY DEF RequestsKnow
  <2>1. UnderWay(h)' <=> UnderWay(h)
    BY <1>2 DEF UnderWay
  <2>2. UnderWay(h) => disk'[request'[h].path] \in request'[h].onDisk
    <3>1. UnderWay(h) => request[h].path \in Path
      BY DEF FilesInv, FilesTyped, UnderWay, Steps
    <3>2. UnderWay(h) => disk[request[h].path] \in request[h].onDisk
      BY DEF FilesInv, RequestsKnow, Knows
    <3>3. UnderWay(h) => disk'[request[h].path] = IF request[h].path = p THEN v
                                                 ELSE disk[request[h].path]
      BY <1>1, <3>1 DEF FilesInv, FilesTyped
    <3> QED BY <1>2, <3>2, <3>3
  <2> QED BY <1>1, <1>2, <2>1, <2>2 DEF FilesInv, RequestsKnow, Knows
<1>7. PanicHasCause'
  <2> SUFFICES ASSUME NEW h \in Host, request[h].pc = "panicked",
                      Absent \notin request[h].onDisk
               PROVE  /\ request'[h].since # NoDate
                      /\ \E u \in request'[h].onDisk \ {Absent} :
                            /\ DateInFuture(h, u)'
                            /\ \/ request'[h].copy = {}
                               \/ \E w \in 1..(u - 1) : Time(w)' > Time(u)'
    BY <1>2 DEF PanicHasCause, UnderWay, Steps
  <2>1. PICK u \in request[h].onDisk \ {Absent} :
           /\ DateInFuture(h, u)
           /\ request[h].copy = {} \/ \E w \in 1..(u - 1) : Time(w) > Time(u)
    BY DEF FilesInv, PanicHasCause
  <2>2. u \in Written /\ 1..(u - 1) \subseteq Written
    <3>1. u \in Written
      BY DEF FilesInv, RequestsKnow, Knows
    <3>2. Len(writes) \in Nat
      BY LenProperties DEF FilesInv, FilesTyped
    <3> QED BY <3>1, <3>2 DEF Written
  <2>3. \A w \in Written : Time(w)' = Time(w)
    BY DEF Time
  <2>4. DateInFuture(h, u)'
    BY <1>2, <2>1, <2>2, <2>3 DEF DateInFuture
  <2>5. request'[h].since # NoDate
    BY <1>2 DEF FilesInv, PanicHasCause
  <2>6. request'[h].copy = {} \/ \E w \in 1..(u - 1) : Time(w)' > Time(u)'
    BY <1>2, <2>1, <2>2, <2>3
  <2>7. u \in request'[h].onDisk \ {Absent}
    BY <1>2
  <2> QED BY <2>4, <2>5, <2>6, <2>7
<1> QED BY <1>3, <1>5, <1>6, <1>7 DEF FilesInv

(* A file is written: its content is a new one.                            *)
LEMMA WriteKept ==
    ASSUME FilesInv, NEW p \in Path, NEW t \in 0..clock, NEW u \in BOOLEAN,
           Write(p, t, u)
    PROVE  FilesInv'
<1>1. /\ writes' = Append(writes, [time |-> t, utf8 |-> u])
      /\ Put(p, Len(writes) + 1)
      /\ writes \in Seq([time : Nat, utf8 : BOOLEAN]) /\ t \in Nat
  BY DEF Write, FilesInv, FilesTyped
<1>2. /\ writes' \in Seq([time : Nat, utf8 : BOOLEAN])
      /\ Len(writes) \in Nat /\ Len(writes') = Len(writes) + 1
      /\ \A w \in 1..Len(writes) : writes'[w] = writes[w]
  <2>1. [time |-> t, utf8 |-> u] \in [time : Nat, utf8 : BOOLEAN]
    BY <1>1
  <2> QED BY <1>1, <2>1, AppendProperties, LenProperties
<1>3. /\ Written \subseteq Written' /\ Len(writes) + 1 \in Written'
      /\ Len(writes) + 1 \notin Written
  BY <1>2 DEF Written
<1>4. \A w \in Written : writes'[w] = writes[w]
  BY <1>2 DEF Written
<1>5. PICK v \in Nat : v = Len(writes) + 1 /\ Put(p, v)
  BY <1>1, <1>2
<1>6. Len(writes') \in Nat /\ v \in {Absent} \cup Written' /\ v \notin Written
  BY <1>2, <1>3, <1>5
<1> QED BY <1>2, <1>3, <1>4, <1>5, <1>6, PutKept

(* A file is removed.                                                      *)
LEMMA RemoveKept ==
    ASSUME FilesInv, NEW p \in Path, Remove(p) PROVE FilesInv'
<1>1. UNCHANGED writes /\ Put(p, Absent) /\ Absent \in Nat
  BY DEF Remove, Absent
<1>2. /\ writes' \in Seq([time : Nat, utf8 : BOOLEAN]) /\ Len(writes') \in Nat
      /\ Written' = Written
  BY <1>1, LenProperties DEF FilesInv, FilesTyped, Written
<1> QED BY <1>1, <1>2, PutKept
-----------------------------------------------------------------------------
(* A request.                                                              *)

(* A worker's step is seen by no other: what it answers is one copy more.  *)
LEMMA OneRequest ==
    ASSUME FilesInv, NEW h \in Host,
           NEW r \in Request, request' = [request EXCEPT ![h] = r],
           r.pc # "idle" => r.path \in Path,
           UNCHANGED <<perRequest, clock, writes, disk>>,
           copies \subseteq copies', copies' \subseteq Copy,
           DOMAIN cache' = Host, \A g \in Host \ {h} : cache'[g] = cache[g],
           Knows(h)', SentBefore(h)', DatesOfWrites', Cause(h)'
    PROVE  FilesInv'
<1>1. Written' = Written /\ \A w : Time(w)' = Time(w) /\ \A q : NoLaterThan(w, q)' <=> NoLaterThan(w, q)
  BY DEF Written, Time, NoLaterThan
<1>2. request'[h] = r /\ \A g \in Host \ {h} : request'[g] = request[g]
  BY DEF FilesInv, FilesTyped
<1>3. FilesTyped'
  BY <1>1, <1>2 DEF FilesInv, FilesTyped
<1>4. ASSUME NEW g \in Host \ {h}
      PROVE  Knows(g)' /\ SentBefore(g)' /\ Cause(g)'
  <2>1. Knows(g)'
    BY <1>1, <1>2 DEF FilesInv, RequestsKnow, Knows, UnderWay
  <2>2. SentBefore(g)'
    BY <1>1 DEF FilesInv, CachedWasSent, SentBefore
  <2>3. Cause(g)'
    <3>1. \A v : DateInFuture(g, v)' <=> DateInFuture(g, v)
      BY <1>1, <1>2 DEF DateInFuture
    <3> QED BY <1>1, <1>2, <3>1 DEF FilesInv, PanicHasCause, Cause
  <2> QED BY <2>1, <2>2, <2>3
<1>5. RequestsKnow' /\ CachedWasSent'
  BY <1>4 DEF RequestsKnow, CachedWasSent
<1>6. PanicHasCause'
  BY <1>4 DEF PanicHasCause, Cause
<1> QED BY <1>3, <1>5, <1>6 DEF FilesInv

(* A request that goes on, or panics, changes nothing else.                *)
LEMMA GotoKept ==
    ASSUME FilesInv, NEW h \in Host, UnderWay(h),
           NEW next \in {"condition", "content", "panicked"}, Goto(h, next),
           next = "condition" => request[h].since # NoDate,
           next = "panicked" => Cause(h)'
    PROVE  FilesInv'
<1>1. /\ request' = [request EXCEPT ![h].pc = next]
      /\ UNCHANGED <<perRequest, clock, writes, disk, cache, copies>>
  BY DEF Goto
<1>2. PICK r \in Request :
         /\ request' = [request EXCEPT ![h] = r]
         /\ r = [request[h] EXCEPT !.pc = next]
  <2>1. request[h] \in Request
    BY DEF FilesInv, FilesTyped
  <2>2. [request[h] EXCEPT !.pc = next] \in Request
    BY <2>1 DEF Request, Steps
  <2> QED BY <1>1, <2>2
<1>3. /\ request'[h] = r /\ r.pc = next /\ r.path = request[h].path
      /\ r.since = request[h].since /\ r.copy = request[h].copy
      /\ r.onDisk = request[h].onDisk /\ r.content = request[h].content
      /\ r.path \in Path /\ request[h].pc # "idle"
  BY <1>2 DEF FilesInv, FilesTyped, Request, UnderWay, Steps
<1>4. Knows(h)'
  BY <1>1, <1>3 DEF FilesInv, RequestsKnow, Knows, UnderWay, Steps, Written
<1>5. SentBefore(h)' /\ DatesOfWrites'
  BY <1>1 DEF FilesInv, CachedWasSent, SentBefore, DatesOfWrites, NoLaterThan, Written, Time
<1>6. Cause(h)'
  BY <1>3 DEF Cause
<1>7. copies' \subseteq Copy /\ DOMAIN cache' = Host
  BY <1>1 DEF FilesInv, FilesTyped
<1> QED BY <1>1, <1>2, <1>3, <1>4, <1>5, <1>6, <1>7, OneRequest

(* A request that is answered leaves its worker idle.                      *)
LEMMA RespondKept ==
    ASSUME FilesInv, NEW h \in Host, NEW status, NEW v, Respond(h, status, v),
           copies \subseteq copies', copies' \subseteq Copy,
           DOMAIN cache' = Host, \A g \in Host \ {h} : cache'[g] = cache[g],
           SentBefore(h)', DatesOfWrites'
    PROVE  FilesInv'
<1>1. /\ request' = [request EXCEPT ![h] = NoRequest]
      /\ UNCHANGED <<perRequest, clock, writes, disk>>
  BY DEF Respond
<1>2. NoRequest \in Request /\ NoRequest.pc = "idle"
  BY DEF NoRequest, Request, Absent
<1>3. request'[h] = NoRequest
  BY <1>1 DEF FilesInv, FilesTyped
<1>4. Knows(h)' /\ Cause(h)'
  BY <1>2, <1>3 DEF Knows, Cause, UnderWay, Steps
<1> QED BY <1>1, <1>2, <1>4, OneRequest

(* It asks, perhaps with the date of a copy.                               *)
LEMMA AskKept ==
    ASSUME FilesInv, NEW h \in Host, NEW p \in Path, NEW s \in Nat \cup {NoDate},
           NEW had \in SUBSET copies, Ask(h, p, s, had),
           \A c \in had : c.path = p /\ c.date = s
    PROVE  FilesInv'
<1> DEFINE r == [pc |-> "stat", path |-> p, since |-> s, copy |-> had,
                 content |-> Absent, onDisk |-> {disk[p]}]
<1>1. /\ request' = [request EXCEPT ![h] = r]
      /\ cache' = [cache EXCEPT ![h] = CacheFound(h)]
      /\ UNCHANGED <<perRequest, clock, writes, disk, copies>>
  BY DEF Ask
<1>2. /\ disk[p] \in {Absent} \cup Written /\ disk[p] \in Nat
      /\ had \subseteq Copy /\ copies' \subseteq Copy
  <2>1. Len(writes) \in Nat
    BY LenProperties DEF FilesInv, FilesTyped
  <2> QED BY <1>1, <2>1 DEF FilesInv, FilesTyped, Written, Absent
<1>3. r \in Request
  BY <1>2 DEF Request, Steps, Absent
<1>4. /\ request'[h] = r /\ cache'[h] = CacheFound(h) /\ DOMAIN cache' = Host
      /\ \A g \in Host \ {h} : cache'[g] = cache[g]
  BY <1>1 DEF FilesInv, FilesTyped
<1>5. Knows(h)'
  BY <1>1, <1>2, <1>4 DEF Knows, UnderWay, Steps, CacheFound, EmptyCache, Written
<1>6. SentBefore(h)'
  <2>1. \A q \in DOMAIN cache'[h] : q \in DOMAIN cache[h] /\ cache'[h][q] = cache[h][q]
    BY <1>4 DEF CacheFound, EmptyCache
  <2> QED BY <1>1, <2>1
          DEF FilesInv, CachedWasSent, SentBefore, NoLaterThan, Written, Time
<1>7. DatesOfWrites'
  BY <1>1 DEF FilesInv, DatesOfWrites, NoLaterThan, Written, Time
<1>8. Cause(h)' /\ r.path \in Path
  BY <1>4 DEF Cause
<1> HIDE DEF r
<1> QED BY <1>1, <1>2, <1>3, <1>4, <1>5, <1>6, <1>7, <1>8, OneRequest

(* The time of a write is a number, and the file's kind a Boolean.         *)
LEMMA WritesTyped ==
    ASSUME FilesInv, NEW w \in Written
    PROVE  /\ w \in Nat \ {0} /\ Len(writes) \in Nat
           /\ Time(w) \in Nat /\ Second(Time(w)) \in Nat
<1>1. /\ writes[w] \in [time : Nat, utf8 : BOOLEAN] /\ Len(writes) \in Nat
      /\ w \in Nat \ {0}
  <2>1. writes \in Seq([time : Nat, utf8 : BOOLEAN]) /\ w \in 1..Len(writes)
    BY DEF FilesInv, FilesTyped, Written
  <2>2. writes[w] \in [time : Nat, utf8 : BOOLEAN]
    BY <2>1, ElementOfSeq
  <2>3. Len(writes) \in Nat
    BY <2>1, LenProperties
  <2> QED BY <2>1, <2>2, <2>3
<1>2. Time(w) \in Nat
  BY <1>1 DEF Time
<1> QED BY <1>1, <1>2, SecondBegun

(* A 200 gives out a content with the date of a write the path has held.   *)
LEMMA ServeKept ==
    ASSUME FilesInv, NEW h \in Host, UnderWay(h), NEW v \in Nat,
           NEW w, NoLaterThan(w, request[h].path), NEW t, t = Time(w), Serve(h, v, t),
           DOMAIN cache' = Host, \A g \in Host \ {h} : cache'[g] = cache[g],
           \A q \in DOMAIN cache'[h] :
              \/ q \in DOMAIN cache[h] /\ cache'[h][q] = cache[h][q]
              \/ q = request[h].path /\ cache'[h][q] = [version |-> v, time |-> t]
    PROVE  FilesInv'
<1> DEFINE new == [host |-> h, path |-> request[h].path, version |-> v,
                   date |-> LastModified(t)]
<1>1. /\ Respond(h, "200", v) /\ copies' = copies \cup {new}
      /\ UNCHANGED <<perRequest, clock, writes, disk>>
  BY DEF Serve, Respond
<1>2. /\ request[h].path \in Path /\ w \in Written /\ Second(t) \in Nat
      /\ new.host = h /\ new.path = request[h].path /\ new.version = v
      /\ new.date = Second(Time(w))
  BY WritesTyped DEF NoLaterThan, FilesInv, FilesTyped, UnderWay, Steps, LastModified
<1>3. new \in Copy
  BY <1>2 DEF Copy, LastModified
<1> HIDE DEF new
<1>4. \A u, q : /\ NoLaterThan(u, q)' <=> NoLaterThan(u, q)
                /\ Time(u)' = Time(u) /\ (u \in Written' <=> u \in Written)
  BY <1>1 DEF NoLaterThan, Written, Time
<1>5. DatesOfWrites'
  BY <1>1, <1>2, <1>4 DEF FilesInv, DatesOfWrites
<1>6. SentBefore(h)'
  <2> SUFFICES ASSUME NEW q \in DOMAIN cache'[h]
               PROVE  /\ \E c \in copies' : /\ c.host = h /\ c.path = q
                                            /\ c.version = cache'[h][q].version
                      /\ \E u \in Written' : /\ NoLaterThan(u, q)'
                                             /\ cache'[h][q].time = Time(u)'
    BY DEF SentBefore
  <2>1. CASE q \in DOMAIN cache[h] /\ cache'[h][q] = cache[h][q]
    BY <1>1, <1>4, <2>1 DEF FilesInv, CachedWasSent, SentBefore
  <2>2. CASE q = request[h].path /\ cache'[h][q] = [version |-> v, time |-> t]
    BY <1>1, <1>2, <1>4, <2>2
  <2> QED BY <2>1, <2>2
<1>7. copies \subseteq copies' /\ copies' \subseteq Copy
  BY <1>1, <1>3 DEF FilesInv, FilesTyped
<1> QED BY <1>1, <1>5, <1>6, <1>7, RespondKept

(* An error is answered, or a 304.                                         *)
LEMMA NothingGiven ==
    ASSUME FilesInv, NEW h \in Host, NEW status, NEW v, Respond(h, status, v),
           UNCHANGED <<cache, copies>>
    PROVE  FilesInv'
<1>1. UNCHANGED <<writes, disk>>
  BY DEF Respond
<1>2. SentBefore(h)' /\ DatesOfWrites'
  BY <1>1 DEF FilesInv, CachedWasSent, SentBefore, DatesOfWrites, NoLaterThan, Written, Time
<1>3. copies' \subseteq Copy /\ DOMAIN cache' = Host
  BY DEF FilesInv, FilesTyped
<1> QED BY <1>2, <1>3, RespondKept

(* The file is looked for.                                                 *)
LEMMA StatKept == ASSUME FilesInv, NEW h \in Host, Stat(h) PROVE FilesInv'
<1>1. CASE Fail(h, "404")
  BY <1>1, NothingGiven DEF Fail
<1>2. CASE Goto(h, IF request[h].since = NoDate THEN "content" ELSE "condition")
  <2>1. UnderWay(h)
    BY DEF Stat, UnderWay, Steps
  <2> QED BY <1>2, <2>1, GotoKept
<1> QED BY <1>1, <1>2 DEF Stat

(* A date in the future of the file: the client made it up, or the file    *)
(* has become older.                                                       *)
LEMMA FutureHasCause ==
    ASSUME FilesInv, NEW h \in Host, request[h].pc = "condition",
           disk[request[h].path] # Absent, DateInFuture(h, disk[request[h].path]),
           Goto(h, "panicked")
    PROVE  Cause(h)'
<1> DEFINE v == disk[request[h].path]
<1>1. /\ UnderWay(h) /\ request[h].path \in Path
      /\ v \in Written /\ v \in request[h].onDisk /\ request[h].since # NoDate
      /\ request[h].since \in Nat
  BY DEF FilesInv, FilesTyped, RequestsKnow, Knows, UnderWay, Steps, Request
<1>2. /\ request' = [request EXCEPT ![h].pc = "panicked"]
      /\ UNCHANGED writes
  BY DEF Goto
<1>3. /\ request'[h].since = request[h].since /\ request'[h].copy = request[h].copy
      /\ request'[h].onDisk = request[h].onDisk
  BY <1>2 DEF FilesInv, FilesTyped, Request
<1>4. \A w : Time(w)' = Time(w)
  BY <1>2 DEF Time
<1>5. Time(v) < request[h].since * TicksPerSecond
  BY DEF DateInFuture
<1>6. ASSUME NEW c \in request[h].copy
      PROVE  \E w \in 1..(v - 1) : Time(w) > Time(v)
  <2>1. c \in copies /\ c.path = request[h].path /\ c.date = request[h].since
    BY <1>1 DEF FilesInv, RequestsKnow, Knows
  <2>2. PICK w \in Written : NoLaterThan(w, request[h].path) /\ c.date = Second(Time(w))
    BY <2>1 DEF FilesInv, DatesOfWrites
  <2>3. /\ Time(w) \in Nat /\ Time(v) \in Nat /\ w \in Nat \ {0} /\ v \in Nat
        /\ c.date * TicksPerSecond <= Time(w)
    BY <1>1, <2>2, WritesTyped, SecondBegun
  <2>4. TicksPerSecond \in Nat
    BY ConstantsAssumption
  <2>5. request[h].since * TicksPerSecond \in Nat
    BY <1>1, <2>4
  <2>6. Time(w) > Time(v)
    BY <1>5, <2>1, <2>3, <2>5
  <2>7. w <= v /\ w # v
    BY <2>2, <2>3, <2>6 DEF NoLaterThan
  <2> QED BY <2>3, <2>6, <2>7
<1> HIDE DEF v
<1>7. \A w : DateInFuture(h, w)' <=> Time(w) < request[h].since * TicksPerSecond
  BY <1>3, <1>4 DEF DateInFuture
<1>8. \/ request[h].copy = {}
      \/ \E w \in 1..(v - 1) : Time(w) > Time(v)
  BY <1>6
<1>9. v # Absent
  BY DEF v
<1> QED BY <1>1, <1>3, <1>4, <1>5, <1>7, <1>8, <1>9 DEF Cause

(* If-Modified-Since is looked at.                                         *)
LEMMA ConditionKept == ASSUME FilesInv, NEW h \in Host, Condition(h) PROVE FilesInv'
<1> DEFINE v == disk[request[h].path]
<1>1. request[h].pc = "condition" /\ UnderWay(h)
  BY DEF Condition, UnderWay, Steps
<1>2. CASE Goto(h, "content")
  BY <1>1, <1>2, GotoKept
<1>3. CASE v # Absent /\ DateInFuture(h, v) /\ Goto(h, "panicked")
  BY <1>1, <1>3, GotoKept, FutureHasCause
<1>4. CASE Respond(h, "304", v) /\ UNCHANGED <<cache, copies>>
  BY <1>4, NothingGiven
<1>5. \/ Goto(h, "content")
      \/ v # Absent /\ DateInFuture(h, v) /\ Goto(h, "panicked")
      \/ Respond(h, "304", v) /\ UNCHANGED <<cache, copies>>
  <2>1. CASE v = Absent
    BY <2>1 DEF Condition
  <2>2. CASE v # Absent /\ DateInFuture(h, v)
    BY <2>2 DEF Condition
  <2>3. CASE v # Absent /\ ~DateInFuture(h, v)
    BY <2>3 DEF Condition
  <2> QED BY <2>1, <2>2, <2>3
<1> QED BY <1>2, <1>3, <1>4, <1>5

(* What is cached is sent again.                                           *)
LEMMA HitKept == ASSUME FilesInv, NEW h \in Host, CacheHit(h) PROVE FilesInv'
<1> DEFINE p == request[h].path
           file == cache[h][p]
<1>1. /\ UnderWay(h) /\ p \in DOMAIN cache[h] /\ UNCHANGED cache
      /\ Serve(h, file.version, file.time)
  BY DEF CacheHit, UnderWay, Steps
<1>2. PICK w \in Written : NoLaterThan(w, p) /\ file.time = Time(w)
  BY <1>1 DEF FilesInv, CachedWasSent, SentBefore
<1>3. file.version \in Nat
  <2>1. PICK c \in copies : c.version = file.version
    BY <1>1 DEF FilesInv, CachedWasSent, SentBefore
  <2> QED BY <2>1 DEF FilesInv, FilesTyped, Copy
<1>4. DOMAIN cache' = Host /\ \A g \in Host : cache'[g] = cache[g]
  BY <1>1 DEF FilesInv, FilesTyped
<1> QED BY <1>1, <1>2, <1>3, <1>4, ServeKept

(* What is not is read.                                                    *)
LEMMA MissKept == ASSUME FilesInv, NEW h \in Host, CacheMiss(h) PROVE FilesInv'
<1> DEFINE v == disk[request[h].path]
<1>1. request[h].pc = "content" /\ UnderWay(h)
  BY DEF CacheMiss, UnderWay, Steps
<1>2. CASE v = Absent
  BY <1>2, NothingGiven DEF CacheMiss, Fail
<1>3. CASE v # Absent /\ ~writes[v].utf8
  BY <1>3, NothingGiven DEF CacheMiss, Fail
<1>4. CASE v # Absent /\ writes[v].utf8
  <2>1. /\ request' = [request EXCEPT ![h].pc = "date", ![h].content = v]
        /\ UNCHANGED <<perRequest, clock, writes, disk, cache, copies>>
    BY <1>4 DEF CacheMiss
  <2>2. /\ request[h] \in Request /\ request[h].path \in Path
        /\ v \in request[h].onDisk /\ v \in Nat
    BY <1>1 DEF FilesInv, FilesTyped, RequestsKnow, Knows, UnderWay, Steps, Request
  <2>3. PICK r \in Request :
           /\ request' = [request EXCEPT ![h] = r]
           /\ r = [request[h] EXCEPT !.pc = "date", !.content = v]
    <3>1. [request[h] EXCEPT !.pc = "date", !.content = v] \in Request
      BY <2>2 DEF Request, Steps
    <3> QED BY <2>1, <3>1
  <2>4. /\ request'[h] = r /\ r.pc = "date" /\ r.content = v
        /\ r.path = request[h].path /\ r.since = request[h].since
        /\ r.copy = request[h].copy /\ r.onDisk = request[h].onDisk
    BY <2>2, <2>3 DEF FilesInv, FilesTyped, Request
  <2>5. Knows(h)'
    BY <1>1, <2>1, <2>2, <2>4 DEF FilesInv, RequestsKnow, Knows, UnderWay, Steps, Written
  <2>6. SentBefore(h)' /\ DatesOfWrites'
    BY <2>1 DEF FilesInv, CachedWasSent, SentBefore, DatesOfWrites, NoLaterThan,
                Written, Time
  <2>7. Cause(h)' /\ copies' \subseteq Copy /\ DOMAIN cache' = Host
    BY <2>1, <2>4 DEF Cause, FilesInv, FilesTyped
  <2> QED BY <2>1, <2>2, <2>3, <2>4, <2>5, <2>6, <2>7, OneRequest
<1> QED BY <1>2, <1>3, <1>4

(* What was read is cached and sent, with the time the file has now.       *)
LEMMA DateKept == ASSUME FilesInv, NEW h \in Host, ReadDate(h) PROVE FilesInv'
<1> DEFINE p == request[h].path
           file == Insert(h)
<1>1. request[h].pc = "date" /\ UnderWay(h) /\ request[h].pc # "idle"
  BY DEF ReadDate, UnderWay, Steps
<1>2. /\ p \in Path /\ disk[p] \in {Absent} \cup Written /\ disk[p] \in request[h].onDisk
      /\ request[h].content \in Nat
  BY <1>1 DEF FilesInv, FilesTyped, RequestsKnow, Knows, Request
<1>3. CASE disk[p] = Absent
  <2>1. Goto(h, "panicked")
    BY <1>3 DEF ReadDate
  <2>2. Cause(h)'
    <3>1. request'[h].onDisk = request[h].onDisk
      BY <2>1 DEF Goto, FilesInv, FilesTyped, Request
    <3> QED BY <1>2, <1>3, <3>1 DEF Cause
  <2> QED BY <1>1, <2>1, <2>2, GotoKept
<1>4. CASE disk[p] # Absent
  <2>1. /\ cache' = [cache EXCEPT ![h] =
                       [q \in DOMAIN @ \cup {p} |-> IF q = p THEN file ELSE @[q]]]
        /\ Serve(h, file.version, file.time)
    BY <1>4 DEF ReadDate
  <2>2. /\ file = [version |-> request[h].content, time |-> Time(disk[p])]
        /\ file.version = request[h].content /\ file.time = Time(disk[p])
    BY DEF Insert
  <2>3. NoLaterThan(disk[p], p)
    <3>1. disk[p] \in Written /\ disk[p] \in Nat
      BY <1>2, <1>4, WritesTyped
    <3> QED BY <3>1 DEF NoLaterThan
  <2>4. /\ DOMAIN cache' = Host /\ \A g \in Host \ {h} : cache'[g] = cache[g]
        /\ cache'[h] = [q \in DOMAIN cache[h] \cup {p} |->
                           IF q = p THEN file ELSE cache[h][q]]
    BY <2>1 DEF FilesInv, FilesTyped
  <2> HIDE DEF file
  <2>5. \A q \in DOMAIN cache'[h] :
           \/ q \in DOMAIN cache[h] /\ cache'[h][q] = cache[h][q]
           \/ q = p /\ cache'[h][q] = [version |-> file.version, time |-> file.time]
    BY <2>2, <2>4
  <2> QED BY <1>1, <1>2, <2>1, <2>2, <2>3, <2>4, <2>5, ServeKept
<1> QED BY <1>3, <1>4
-----------------------------------------------------------------------------
(* The theorems.                                                           *)

(* Nothing is written or asked for at the beginning.                       *)
LEMMA FilesStart == ASSUME Init PROVE FilesInv
<1>1. /\ perRequest \in BOOLEAN /\ clock = 0 /\ writes = <<>> /\ copies = {}
      /\ disk = [p \in Path |-> Absent]
      /\ cache = [h \in Host |-> EmptyCache]
      /\ request = [h \in Host |-> NoRequest]
  BY DEF Init
<1>2. NoRequest \in Request /\ NoRequest.pc = "idle"
  BY DEF NoRequest, Request, Absent
<1>3. \A h \in Host : request[h].pc = "idle" /\ DOMAIN cache[h] = {}
  BY <1>1, <1>2 DEF EmptyCache
<1>4. FilesTyped
  <2>1. writes \in Seq([time : Nat, utf8 : BOOLEAN])
    BY <1>1, EmptySeq
  <2> QED BY <1>1, <1>2, <1>3, <2>1 DEF FilesTyped
<1>5. CachedWasSent /\ DatesOfWrites /\ RequestsKnow /\ PanicHasCause
  BY <1>1, <1>3 DEF CachedWasSent, SentBefore, DatesOfWrites, RequestsKnow, Knows,
                    PanicHasCause, UnderWay, Steps
<1> QED BY <1>4, <1>5 DEF FilesInv

(* Every step of the workers, the clients and whoever writes files.        *)
LEMMA FilesStep == ASSUME FilesInv, [Next]_vars PROVE FilesInv'
<1>1. ASSUME UNCHANGED <<perRequest, writes, disk, cache, request, copies>>,
             clock' \in Nat
      PROVE  FilesInv'
  <2>1. /\ Written' = Written /\ \A w : Time(w)' = Time(w)
        /\ \A w, p : NoLaterThan(w, p)' <=> NoLaterThan(w, p)
        /\ \A h : (UnderWay(h)' <=> UnderWay(h)) /\ (Knows(h)' <=> Knows(h))
        /\ \A h, v : DateInFuture(h, v)' <=> DateInFuture(h, v)
    BY <1>1 DEF Written, Time, NoLaterThan, UnderWay, Knows, DateInFuture
  <2>2. FilesTyped'
    BY <1>1, <2>1 DEF FilesInv, FilesTyped
  <2>3. CachedWasSent' /\ DatesOfWrites'
    BY <1>1, <2>1 DEF FilesInv, CachedWasSent, SentBefore, DatesOfWrites
  <2>4. RequestsKnow' /\ PanicHasCause'
    BY <1>1, <2>1 DEF FilesInv, RequestsKnow, PanicHasCause
  <2> QED BY <2>2, <2>3, <2>4 DEF FilesInv
<1>2. CASE UNCHANGED vars
  BY <1>1, <1>2 DEF vars, FilesInv, FilesTyped
<1>3. CASE Tick
  BY <1>1, <1>3 DEF Tick, FilesInv, FilesTyped
<1>4. ASSUME NEW h \in Host, Handle(h) PROVE FilesInv'
  BY <1>4, StatKept, ConditionKept, HitKept, MissKept, DateKept DEF Handle
<1>5. ASSUME NEW h \in Host, NEW p \in Path,
             Ask(h, p, NoDate, {}) \/ \E d \in Date : Ask(h, p, d, {})
      PROVE  FilesInv'
  <2>0. Date \subseteq Nat
    BY ConstantsAssumption DEF Date
  <2>1. PICK s \in Nat \cup {NoDate} : Ask(h, p, s, {})
    BY <1>5, <2>0
  <2> QED BY <2>1, AskKept
<1>6. ASSUME NEW h \in Host, NEW c \in copies, Ask(h, c.path, c.date, {c})
      PROVE  FilesInv'
  <2>1. c.path \in Path /\ c.date \in Nat /\ {c} \in SUBSET copies
    BY DEF FilesInv, FilesTyped, Copy
  <2> QED BY <1>6, <2>1, AskKept
<1> QED BY <1>2, <1>3, <1>4, <1>5, <1>6, WriteKept, RemoveKept DEF Next

(* The invariant holds of every state.                                     *)
LEMMA FilesAlways == Spec => []FilesInv
<1>1. Init => FilesInv
  BY FilesStart
<1>2. FilesInv /\ [Next]_vars => FilesInv'
  BY FilesStep
<1> QED BY <1>1, <1>2, PTL DEF Spec

(* A request is moved on by its own worker only.                           *)
LEMMA OwnStep ==
    ASSUME FilesInv, [Next]_vars, NEW h \in Host, request[h].pc # "idle",
           request'[h].pc # request[h].pc
    PROVE  Handle(h)
<1>1. ASSUME NEW p, NEW v, Put(p, v) PROVE FALSE
  BY <1>1 DEF Put, FilesInv, FilesTyped, Request
<1>2. ASSUME NEW g \in Host, Handle(g) PROVE g = h
  BY <1>2 DEF Handle, Stat, Condition, CacheHit, CacheMiss, ReadDate, Serve, Fail,
              Respond, Goto, FilesInv, FilesTyped
<1>3. ASSUME NEW g \in Host, NEW p, NEW s, NEW had, Ask(g, p, s, had) PROVE FALSE
  BY <1>3 DEF Ask, FilesInv, FilesTyped
<1>4. request' # request
  OBVIOUS
<1> QED BY <1>1, <1>2, <1>3, <1>4 DEF Next, Tick, Write, Remove, vars

(* A panic on a static file has a cause outside of the worker, or is the   *)
(* price of reading a file's time after its content (Files).               *)
THEOREM PanicsHaveCauses == Spec => []PanicHasCause
<1>1. FilesInv => PanicHasCause
  BY DEF FilesInv
<1> QED BY <1>1, FilesAlways, PTL

(* A 304 never hides a change by a second or more from a client whose copy *)
(* has the date of its own content (Files::modified_since).                *)
THEOREM NotModifiedHonest == Spec => NotModifiedIsHonest
<1> DEFINE Honest == \A h \in Host :
          request[h].pc = "condition" /\ request'[h].pc = "idle" =>
              \A c \in request[h].copy :
                  LET v == disk[c.path]
                  IN  \/ v = c.version
                      \/ Second(Time(v)) = Second(Time(c.version))
                      \/ c.date # Second(Time(c.version))
<1>1. FilesInv /\ [Next]_vars => [Honest]_vars
  <2> SUFFICES ASSUME FilesInv, [Next]_vars, NEW h \in Host,
                      request[h].pc = "condition", request'[h].pc = "idle",
                      NEW c \in request[h].copy
               PROVE  Second(Time(disk[c.path])) = c.date
    OBVIOUS
  <2> DEFINE v == disk[request[h].path]
  <2>1. /\ c.path = request[h].path /\ c.date = request[h].since
        /\ request[h].path \in Path /\ request[h].since \in Nat
    BY DEF FilesInv, FilesTyped, RequestsKnow, Knows, Request
  <2>2. Condition(h)
    <3>1. Handle(h)
      BY OwnStep
    <3> QED BY <3>1 DEF Handle, Stat, CacheHit, CacheMiss, ReadDate
  <2>3. \A next : Goto(h, next) => request'[h].pc = next
    BY DEF Goto, FilesInv, FilesTyped, Request
  <2>4. v # Absent /\ ~DateInFuture(h, v) /\ ~ModifiedSince(Time(v), request[h].since)
    BY <2>2, <2>3 DEF Condition
  <2>5. Time(v) \in Nat
    <3>1. v \in Written
      BY <2>1, <2>4 DEF FilesInv, FilesTyped
    <3> QED BY <3>1, WritesTyped
  <2>6. Second(Time(v)) = request[h].since
    BY <2>1, <2>4, <2>5, UnmodifiedInSecond DEF DateInFuture
  <2> QED BY <2>1, <2>6
<1> QED BY <1>1, FilesAlways, PTL DEF Spec, NotModifiedIsHonest

(* A 200 has a content the file held since the request came, or repeats an *)
(* answer of the same worker (Files::get_content).                         *)
THEOREM ContentFresh == Spec => ContentFreshOrRepeated
<1> DEFINE Fresh == \A h \in Host :
          LET v == answer'.version IN
          request[h].pc \in {"content", "date"} /\ request'[h].pc = "idle"
              /\ answer'.status = "200" =>
                  \/ v \in request[h].onDisk
                  \/ /\ ~perRequest
                     /\ \E c \in copies : c.host = h /\ c.version = v
                                          /\ c.path = request[h].path
<1>1. FilesInv /\ [Next]_vars => [Fresh]_vars
  <2> SUFFICES ASSUME FilesInv, [Next]_vars, NEW h \in Host,
                      request[h].pc \in {"content", "date"}, request'[h].pc = "idle",
                      answer'.status = "200"
               PROVE  \/ answer'.version \in request[h].onDisk
                      \/ /\ ~perRequest
                         /\ \E c \in copies : /\ c.host = h
                                              /\ c.version = answer'.version
                                              /\ c.path = request[h].path
    OBVIOUS
  <2>1. Handle(h)
    BY OwnStep
  <2>2. CASE CacheHit(h)
    <3>1. /\ request[h].path \in DOMAIN cache[h]
          /\ answer'.version = cache[h][request[h].path].version
      BY <2>2 DEF CacheHit, Serve, Respond
    <3>2. ~perRequest
      BY <3>1 DEF FilesInv, RequestsKnow, Knows
    <3> QED BY <3>1, <3>2 DEF FilesInv, CachedWasSent, SentBefore
  <2>3. CASE ReadDate(h)
    <3>1. \A next : Goto(h, next) => request'[h].pc = next
      BY DEF Goto, FilesInv, FilesTyped, Request
    <3>2. answer'.version = request[h].content
      BY <2>3, <3>1 DEF ReadDate, Serve, Respond, Insert
    <3> QED BY <2>3, <3>2 DEF ReadDate, FilesInv, RequestsKnow, Knows
  <2>4. CASE CacheMiss(h)
    <3> DEFINE v == disk[request[h].path]
    <3>0. v \in Nat /\ request \in [Host -> Request]
      <4>1. request[h].path \in Path
        BY DEF FilesInv, FilesTyped
      <4>2. v \in {Absent} \cup Written
        BY <4>1 DEF FilesInv, FilesTyped
      <4>3. Len(writes) \in Nat
        BY LenProperties DEF FilesInv, FilesTyped
      <4> QED BY <4>2, <4>3 DEF FilesInv, FilesTyped, Absent, Written
    <3>1. ~Respond(h, "404", Absent) /\ ~Respond(h, "500", Absent)
      BY DEF Respond
    <3>2. request'[h].pc = "date"
      <4>1. v # Absent
        BY <2>4, <3>1 DEF CacheMiss, Fail
      <4>2. writes[v].utf8
        BY <2>4, <3>1, <4>1 DEF CacheMiss, Fail
      <4>3. request' = [request EXCEPT ![h].pc = "date", ![h].content = v]
        BY <2>4, <4>1, <4>2 DEF CacheMiss
      <4> QED BY <3>0, <4>3 DEF Request
    <3> QED BY <3>2
  <2>5. CASE Stat(h) \/ Condition(h)
    BY <2>5 DEF Stat, Condition
  <2> QED BY <2>1, <2>2, <2>3, <2>4, <2>5 DEF Handle
<1> QED BY <1>1, FilesAlways, PTL DEF Spec, ContentFreshOrRepeated
=============================================================================
