------------------------------ MODULE EventLog ------------------------------
(***************************************************************************)
(* The diagnostic log: threads of the engine append to a ring in memory    *)
(* (src/src/logbuf.c) that keeps a day or LOGBUF_CAP entries; the shell    *)
(* drains it once a second into its event store (src/lunar.tcl, lunar::ev  *)
(* and the events_... procs), a list in memory and two files, events.log   *)
(* and the generation before it.  The shell's own events go to the store   *)
(* directly.                                                               *)
(*                                                                         *)
(* The ring is locked for one append or one read; the stamp of an entry is *)
(* taken before the lock.  The shell is one thread, but the program may    *)
(* die between any two of its file operations and inside a write, and any  *)
(* of them may fail: all of them are under a catch.  A file that can be    *)
(* appended to is taken to be readable (the check of its last byte).       *)
(* Events are numbers, in the order they enter the store; what they say is *)
(* left out, and so is last-session.log, which the program never reads.    *)
(***************************************************************************)
EXTENDS Integers, SequencesExt

CONSTANTS
    Threads,              \* of the engine
    LOGBUF_CAP,           \* 2048 entries
    LOGBUF_RETENTION_MS,  \* 24 hours
    EventsMemMax,         \* events_mem_max: 10000 events
    EventsFileMax,        \* events_file_max: 4 MiB, here in whole lines (what torn ones add to
                          \* them is little)
    MaxTick, MaxSeq, MaxEvents, MaxRuns      \* bounds

ASSUME EventConstants ==
    /\ LOGBUF_CAP \in Nat \ {0} /\ EventsMemMax \in Nat \ {0}
    /\ EventsFileMax \in Nat

VARIABLES
    tick,
    stamp,      \* per thread: the tick it took for its entry, -1 when it has none
    ring,       \* g_ring from g_head: [seq, tick]
    nextSeq,    \* g_nextSeq
    seen,       \* events_seq
    shown,      \* events: the store in memory, numbers of events
    pc, after,  \* where the shell is, and where it goes when a batch is stored
    home,       \* "booting" until the history is loaded, "running", "quitting"
    batch,      \* the events it is storing
    made, born, \* the last event's number, and the first one of this run
    old, cur,   \* events.log.1 and events.log: [lines, open], open when the last
                \* line has no newline
    runs,
    stored, told \* ghosts of this run: the entries that were stored, in order,
                 \* and the numbers a gap was reported for

engine == <<tick, stamp, ring, nextSeq>>
files == <<old, cur>>
memory == <<seen, shown, made, born, stored, told>>
shell == <<pc, after, home, batch>>
logVars == <<engine, files, memory, shell, runs>>

Torn == 0           \* a line events_read_file skips
Empty == [lines |-> <<>>, open |-> FALSE]

\* The elements of s that are not in gone, in their order.
Omit(s, gone) ==
    LET kept[n \in 0 .. Len(s)] ==
          IF n = 0 THEN <<>>
          ELSE IF s[n] \in gone THEN kept[n - 1] ELSE Append(kept[n - 1], s[n])
    IN  kept[Len(s)]

Readable(f) == Omit(f.lines, {Torn})
Newest(s, n) == IF Len(s) > n THEN SubSeq(s, Len(s) - n + 1, Len(s)) ELSE s

LogInit ==
    /\ ring = <<>> /\ nextSeq = 1 /\ stamp = [t \in Threads |-> -1]
    /\ seen = 0 /\ shown = <<>> /\ stored = <<>> /\ told = {} /\ born = 1
    /\ pc = "idle" /\ after = "idle" /\ home = "booting" /\ batch = <<>>
    /\ tick = 0 /\ made = 0 /\ old = Empty /\ cur = Empty /\ runs = 1
-----------------------------------------------------------------------------
(***************************************************************************)
(* The ring.                                                               *)
(***************************************************************************)
\* EvictOld stops at the first entry that is not stale: ticks are nearly in
\* order, not quite.
Kept(now) ==
    LET live == {i \in DOMAIN ring :
                   ring[i].tick > now \/ now - ring[i].tick < LOGBUF_RETENTION_MS}
    IN  IF live = {} THEN <<>>
        ELSE SubSeq(ring, CHOOSE i \in live : \A j \in live : i <= j, Len(ring))

\* Log_CollectSince.
CollectSince(seq) == Omit(Kept(tick), {e \in ToSet(ring) : e.seq <= seq})

LogTick == /\ tick < MaxTick
           /\ tick' = tick + 1
           /\ UNCHANGED <<stamp, ring, nextSeq, files, memory, shell, runs>>

\* Log_Append before the lock ...
Stamp(t) == /\ stamp[t] = -1
            /\ stamp' = [stamp EXCEPT ![t] = tick]
            /\ UNCHANGED <<tick, ring, nextSeq, files, memory, shell, runs>>

\* ... and under it: a full ring loses its oldest entry.
LogAppend(t) ==
    /\ stamp[t] >= 0 /\ nextSeq <= MaxSeq
    /\ ring' = Newest(Append(Kept(stamp[t]), [seq |-> nextSeq, tick |-> stamp[t]]), LOGBUF_CAP)
    /\ nextSeq' = nextSeq + 1
    /\ stamp' = [stamp EXCEPT ![t] = -1]
    /\ UNCHANGED <<tick, files, memory, shell, runs>>
-----------------------------------------------------------------------------
(***************************************************************************)
(* The shell makes events: its own (lunar::ev), and those of the ring.     *)
(***************************************************************************)
Take(n) ==
    /\ made + n <= MaxEvents
    /\ batch' = [i \in 1 .. n |-> made + i]
    /\ shown' = Newest(shown \o batch', EventsMemMax)
    /\ made' = made + n
    /\ pc' = "rotate"

\* An error pulls the ring forward once it is stored.
Ev(severity) ==
    /\ pc = "idle" /\ home # "quitting"
    /\ Take(1)
    /\ after' = IF severity = "error" THEN "drain" ELSE "idle"
    /\ UNCHANGED <<engine, files, seen, born, home, runs, stored, told>>

\* A plausible slip: the cursor's own number is not counted out.
MissedShort(fresh) == IF seen > 0 THEN fresh[1].seq - seen - 2 ELSE 0

\* How many entries were lost before the first of a batch, as far as the
\* cursor tells.
Missed(fresh) == IF seen > 0 THEN fresh[1].seq - seen - 1 ELSE 0

\* events_drain: once a second when running, after an error, and at the end.
Drain ==
    LET fresh == CollectSince(seen)
        gap == fresh # <<>> /\ Missed(fresh) > 0
    IN  /\ pc = "drain" \/ (pc = "idle" /\ home = "running")
        /\ ring' = Kept(tick)
        /\ IF fresh = <<>>
             THEN pc' = "idle" /\ UNCHANGED <<memory, batch>>
             ELSE /\ Take(Len(fresh) + IF gap THEN 1 ELSE 0)
                  /\ seen' = Last(fresh).seq
                  /\ stored' = stored \o [i \in DOMAIN fresh |-> fresh[i].seq]
                  /\ told' = IF gap
                             THEN told \union (fresh[1].seq - Missed(fresh) .. fresh[1].seq - 1)
                             ELSE told
                  /\ UNCHANGED born
        /\ after' = "idle"
        /\ UNCHANGED <<tick, stamp, nextSeq, files, home, runs>>

\* A plausible slip: the loaded history simply replaces the store.
MergedFromDisk ==
    LET now == Readable(cur)
    IN  Newest((IF Len(now) < EventsMemMax THEN Readable(old) ELSE <<>>) \o now, EventsMemMax)

\* events_load: the older generation only when there is room for it, and the
\* events of this run that did not reach the file.
Merged ==
    LET now == Readable(cur)
        before == IF Len(now) < EventsMemMax THEN Readable(old) ELSE <<>>
        missing == Omit(shown, ToSet(now))
    IN  Newest(before \o now \o missing, EventsMemMax)

LoadHistory ==
    /\ pc = "idle" /\ home = "booting"
    /\ shown' = Merged /\ home' = "running"
    /\ UNCHANGED <<engine, files, seen, made, born, stored, told, pc, after, batch, runs>>

\* lunar::quit: the engine stops, its last entries are drained.
Quit ==
    /\ pc = "idle" /\ home = "running"
    /\ home' = "quitting" /\ pc' = "drain"
    /\ UNCHANGED <<engine, files, memory, after, batch, runs>>
-----------------------------------------------------------------------------
(***************************************************************************)
(* events_persist: every step may fail, and the program may die at each.   *)
(***************************************************************************)
\* A plausible slip: no one looks at the last byte.
NoSeam(f) == f

\* A batch that follows a torn line starts on a line of its own.
Seam(f) == [f EXCEPT !.open = FALSE]

\* Text appended to a line without an end makes one unreadable line of two.
Put(f, s, open) ==
    [lines |-> IF f.open /\ s # <<>>
               THEN Append(Front(f.lines), Torn) \o Tail(s) ELSE f.lines \o s,
     open |-> open]

\* What a write that is cut short leaves: some whole lines, then nothing, a
\* part of a line, or a line without its end.
CutShort(f) ==
    {f} \union UNION {
        LET whole == SubSeq(batch, 1, k)
        IN  {Put(Seam(f), whole, FALSE), Put(Seam(f), Append(whole, Torn), TRUE),
             Put(Seam(f), Append(whole, batch[k + 1]), TRUE)} : k \in 0 .. Len(batch) - 1}

\* A plausible slip: the size is not looked at.
AnySize == cur.lines # <<>>

TooLarge == Len(Readable(cur)) > EventsFileMax

RotateDelete ==
    /\ pc = "rotate"
    /\ \/ /\ TooLarge
          /\ old' = Empty /\ pc' = "rename"
       \/ pc' = "write" /\ UNCHANGED old     \* small enough, or the delete failed
    /\ UNCHANGED <<engine, memory, cur, after, home, batch, runs>>

Rename ==
    /\ pc = "rename"
    /\ pc' = "write"
    /\ \/ old' = cur /\ cur' = Empty
       \/ UNCHANGED files
    /\ UNCHANGED <<engine, memory, after, home, batch, runs>>

Write ==
    /\ pc = "write"
    /\ cur' \in {Put(Seam(cur), batch, FALSE)} \union CutShort(cur)
    /\ pc' = after /\ after' = "idle" /\ batch' = <<>>
    /\ UNCHANGED <<engine, memory, old, home, runs>>

\* The program dies, or has quit; it starts again.
Restart ==
    /\ runs < MaxRuns
    /\ cur' \in IF pc = "write" THEN CutShort(cur) ELSE {cur}
    /\ runs' = runs + 1
    /\ ring' = <<>> /\ nextSeq' = 1 /\ stamp' = [t \in Threads |-> -1]
    /\ seen' = 0 /\ shown' = <<>> /\ stored' = <<>> /\ told' = {} /\ born' = made + 1
    /\ pc' = "idle" /\ after' = "idle" /\ home' = "booting" /\ batch' = <<>>
    /\ UNCHANGED <<tick, made, old>>

LogNext ==
    \/ LogTick \/ \E t \in Threads : Stamp(t) \/ LogAppend(t)
    \/ \E s \in {"info", "error"} : Ev(s)
    \/ Drain \/ LoadHistory \/ Quit \/ RotateDelete \/ Rename \/ Write \/ Restart

LogSpec == LogInit /\ [][LogNext]_logVars
-----------------------------------------------------------------------------
(***************************************************************************)
(* What the two files hold follows the ledger (EventLedger).  No crash and *)
(* no write cut short makes a record unreadable that was readable, or      *)
(* shows it out of order.  A rotation that stops half-way does cost the    *)
(* older generation, and nothing replaces it; it never costs a record of   *)
(* the current file, and that one is then over its limit.                  *)
(***************************************************************************)
Ledger == INSTANCE EventLedger
    WITH Limit <- EventsFileMax, older <- Readable(old), current <- Readable(cur)
KeepsHistory == Ledger!Spec

(***************************************************************************)
(* An entry of the ring is stored once, in order; one that was overwritten *)
(* or evicted before the drain came is counted in the event that reports   *)
(* the gap ("never silent", src/lunar.tcl:251-252) -- unless nothing had   *)
(* been drained before it, when the cursor cannot tell.                    *)
(***************************************************************************)
NeverSilent ==
    /\ \A i \in 1 .. Len(stored) - 1 : stored[i] < stored[i + 1]
    /\ told \cap ToSet(stored) = {}
    /\ stored # <<>> => stored[1] .. seen = ToSet(stored) \union told

(***************************************************************************)
(* Loading the history loses no event of this run: each is shown, or made  *)
(* room for others -- whether or not it ever reached the file.             *)
(***************************************************************************)
LoadLosesNothing ==
    Len(shown) < EventsMemMax => born .. made \subseteq ToSet(shown)
=============================================================================
