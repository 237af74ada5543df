--------------------------------- MODULE H2 ---------------------------------
(***************************************************************************)
(* One HTTP/2 exchange with a DoH resolver (src/src/h2.c): the request is  *)
(* on the wire, the response comes frame by frame.  Header blocks are      *)
(* compressed against a table that both sides keep (HPACK), and may be cut *)
(* into several frames; interim responses may come before the response,    *)
(* and trailers after its body.                                            *)
(*                                                                         *)
(* The server is any server that follows RFC 9113 and RFC 7541, or goes    *)
(* away.  A frame is sent and handled in one step: the connection keeps    *)
(* their order.  Headers are told apart by what the client reads of them   *)
(* (the status) and by their size; octets, Huffman coding and padding are  *)
(* left out, and so are the windows: no response fills them.               *)
(***************************************************************************)
EXTENDS Integers, SequencesExt

CONSTANTS
    Static,              \* the static table: [name, value]
    Values,              \* of headers, told apart by a number: of "status", its own
    Cost,                \* the room a header with this value takes in a table
    HPACK_DYN_MAX,       \* 4096 octets, here in units of Cost
    HPACK_STR_MAX,       \* the longest header the client has room for
    EncoderMaxes,        \* how large a server may keep its table
    Interim, Final,      \* header lists a server may send
    Trailers,
    H2_MAX_FRAMES,       \* 512
    HblockMax,           \* sizeof hblock, in header fields
    OutCap               \* out_cap, the room for the body

ASSUME H2Constants ==
    /\ Values \subseteq Nat
    /\ Cost \in [Values -> Nat \ {0}]
    /\ HPACK_DYN_MAX \in EncoderMaxes
    /\ EncoderMaxes \subseteq 0 .. HPACK_DYN_MAX
    /\ HPACK_DYN_MAX \in Nat /\ HPACK_STR_MAX \in Nat
    /\ H2_MAX_FRAMES \in Nat /\ HblockMax \in Nat /\ OutCap \in Nat

Header == [name : STRING, value : Values]

IsInterim(status) == status >= 100 /\ status < 200

\* RFC 9113, 8.3: a response, interim or final, begins with its status and names it once.
StatusFirst(fields) ==
    /\ fields # <<>> /\ fields[1].name = "status"
    /\ \A i \in 2 .. Len(fields) : fields[i].name # "status"

ASSUME HeaderLists ==
    /\ Static \in Seq(Header)
    /\ Interim \cup Final \cup Trailers \subseteq Seq(Header)
    /\ \A fields \in Interim : StatusFirst(fields) /\ IsInterim(fields[1].value)
    /\ \A fields \in Final :
          StatusFirst(fields) /\ ~IsInterim(fields[1].value) /\ fields[1].value # 0

VARIABLES
    peer,        \* the server: [stage, rest, ends, table, max, status, len, block, huge, gone]: what
                 \* is left of a block and whether it ends the stream, the encoder's table,
                 \* what was said so far, the size of the last block, whether a header was
                 \* huge, and whether the server has gone away
    conn         \* the client: [table, max, hblock, ends, status, len, frames, result]

h2Vars == <<peer, conn>>

PeerOpens ==
    [stage |-> "start", rest |-> <<>>, ends |-> FALSE, table |-> <<>>, max |-> HPACK_DYN_MAX,
     status |-> 0, len |-> 0, block |-> 0, huge |-> FALSE, gone |-> FALSE]

ConnOpens ==
    [table |-> <<>>, max |-> HPACK_DYN_MAX, hblock |-> <<>>, ends |-> FALSE, status |-> 0,
     len |-> 0, frames |-> 0, result |-> "reading"]

\* The preface, the settings and the request were written in one piece.
H2Init == peer = PeerOpens /\ conn = ConnOpens
-----------------------------------------------------------------------------
(***************************************************************************)
(* The client's table, oldest entry first.                                 *)
(***************************************************************************)
Used(t) == FoldLeft(LAMBDA sum, f : sum + Cost[f.value], 0, t)

\* dyn_evict_oldest, until the rest fits.
Evicted(t, room) ==
    LET fits == {i \in 1 .. Len(t) + 1 : Used(SubSeq(t, i, Len(t))) <= room}
    IN  SubSeq(t, CHOOSE i \in fits : \A j \in fits : i <= j, Len(t))

\* table_lookup: behind the static table, the entry added last comes first.
Known(t, idx) == idx \in 1 .. Len(Static) + Len(t)
TableLookup(t, idx) ==
    IF idx <= Len(Static) THEN Static[idx] ELSE t[Len(t) - (idx - Len(Static) - 1)]

\* Mutant: >= for > when room is made, so that a full table loses one entry too many.
DynAddOverEvicts(t, max, f) ==
    LET room == max - Cost[f.value]
    IN  IF room < 0 THEN <<>>
        ELSE Append(IF Used(t) < room THEN t ELSE Evicted(t, IF room = 0 THEN 0 ELSE room - 1), f)

\* dyn_add: an entry that is too large empties the table.  What is within the limit fits
\* the arena, so the check of its size never fails.
DynAdd(t, max, f) ==
    IF Cost[f.value] > max THEN <<>> ELSE Append(Evicted(t, max - Cost[f.value]), f)

\* on_response_header
StatusSeen(d, f) == IF f.name = "status" THEN f.value ELSE d.status

\* One representation of a header block.  d: [ok, table, max, status].
DecodeOne(d, r) ==
    LET named == r.idx = 0 \/ Known(d.table, r.idx)
        entry == IF r.idx = 0 THEN r.field ELSE TableLookup(d.table, r.idx)
        field == IF r.kind = "literal" THEN [entry EXCEPT !.value = r.field.value] ELSE entry
    IN  IF ~d.ok THEN d ELSE
        CASE r.kind = "resize" ->
               IF r.max > HPACK_DYN_MAX THEN [d EXCEPT !.ok = FALSE]
               ELSE [d EXCEPT !.max = r.max, !.table = Evicted(@, r.max)]
          [] r.kind = "indexed" ->
               IF r.idx = 0 \/ ~named THEN [d EXCEPT !.ok = FALSE]
               ELSE [d EXCEPT !.status = StatusSeen(d, field)]
          [] r.kind = "literal" ->
               IF ~named \/ Cost[r.field.value] > HPACK_STR_MAX THEN [d EXCEPT !.ok = FALSE]
               ELSE [d EXCEPT !.status = StatusSeen(d, field),
                              !.table = IF r.add THEN DynAdd(@, d.max, field) ELSE @]

\* Hpack_Decode; status 0 when the block has none.
Decode(c) ==
    FoldLeft(DecodeOne, [ok |-> TRUE, table |-> c.table, max |-> c.max, status |-> 0], c.hblock)
-----------------------------------------------------------------------------
(***************************************************************************)
(* The client reads a frame.                                               *)
(***************************************************************************)
Fails(c) == [c EXCEPT !.result = "failed"]

\* A complete header block: the response's status, an interim one to skip, or trailers.
BlockEnds(c) ==
    LET got == Decode(c)
        read == [c EXCEPT !.table = got.table, !.max = got.max, !.hblock = <<>>]
    IN  IF ~got.ok \/ (c.status = 0 /\ (got.status = 0 \/ (IsInterim(got.status) /\ c.ends)))
        THEN Fails(c)
        ELSE IF c.status = 0 /\ IsInterim(got.status) THEN read
        ELSE [read EXCEPT !.status = IF c.status = 0 THEN got.status ELSE @,
                          !.result = IF c.ends THEN "done" ELSE @]

\* F_HEADERS and F_CONTINUATION: a part of a block, perhaps the last.
ReadHeaders(c, part, endHeaders, endStream) ==
    LET block == c.hblock \o part
        more == [c EXCEPT !.hblock = block, !.ends = @ \/ endStream]
    IN  IF Len(block) > HblockMax THEN Fails(c)
        ELSE IF endHeaders THEN BlockEnds(more) ELSE more

ReadData(c, n, endStream) ==
    IF c.status = 0 \/ n > OutCap - c.len THEN Fails(c)
    ELSE [c EXCEPT !.len = @ + n, !.result = IF endStream THEN "done" ELSE @]

\* The loop: what the next frame makes of the connection, unless there were too many.
Reads(next) ==
    /\ conn.result = "reading"
    /\ conn' = [IF conn.frames >= H2_MAX_FRAMES THEN Fails(conn) ELSE next
                 EXCEPT !.frames = @ + 1]
-----------------------------------------------------------------------------
(***************************************************************************)
(* The server.                                                             *)
(***************************************************************************)
\* RFC 7541, 4.3 and 4.4: the newest entries that fit stay.
Retained(t, max) ==
    LET newest(k) == SubSeq(t, Len(t) - k + 1, Len(t))
        fit == {k \in 0 .. Len(t) : Used(newest(k)) <= max}
    IN  newest(CHOOSE k \in fit : \A j \in fit : j <= k)

\* The ways to represent f against the table t, and the table each leaves.
Representations(f, t, max) ==
    LET space == Static \o Reverse(t)      \* RFC 7541, 2.3.3: the newest entry comes first
        all == DOMAIN space
    IN  {[r |-> [kind |-> "indexed", idx |-> i], table |-> t] :
            i \in {j \in all : space[j] = f}}
        \cup {[r |-> [kind |-> "literal", idx |-> i, field |-> f, add |-> add],
               table |-> IF add THEN Retained(Append(t, f), max) ELSE t] :
            i \in {0} \cup {j \in all : space[j].name = f.name}, add \in BOOLEAN}

\* The blocks for a list of headers, each with the table it leaves.
Blocks(fields, block, t, max) ==
    FoldLeft(LAMBDA acc, f : UNION {
                 {[block |-> Append(a.block, x.r), table |-> x.table] :
                     x \in Representations(f, a.table, max)} : a \in acc},
             {[block |-> block, table |-> t]}, fields)

\* A block for a list of headers, and its first frame.  A new size of the table comes first.
SendHeaders(fields, endStream, stage, status) ==
    /\ conn.result = "reading"
    /\ \E max \in EncoderMaxes :
       \E b \in Blocks(fields,
                       IF max = peer.max THEN <<>>
                       ELSE <<[kind |-> "resize", idx |-> 0, max |-> max]>>,
                       Retained(peer.table, max), max) :
       \E cut \in 0 .. Len(b.block) :
          /\ Reads(ReadHeaders(conn, SubSeq(b.block, 1, cut), cut = Len(b.block), endStream))
          /\ peer' = [peer EXCEPT !.stage = IF cut = Len(b.block) THEN stage ELSE "block",
                !.rest = SubSeq(b.block, cut + 1, Len(b.block)), !.ends = endStream,
                !.table = b.table, !.max = max, !.status = status, !.block = cut,
                !.huge = @ \/ \E f \in ToSet(fields) : Cost[f.value] > HPACK_STR_MAX]

SendInterim == \E fields \in Interim :
    peer.stage = "start" /\ SendHeaders(fields, FALSE, "start", 0)

SendFinal == \E fields \in Final, endStream \in BOOLEAN :
    /\ peer.stage = "start"
    /\ SendHeaders(fields, endStream, IF endStream THEN "done" ELSE "body", fields[1].value)

SendTrailers == \E fields \in Trailers :
    peer.stage = "body" /\ SendHeaders(fields, TRUE, "done", peer.status)

\* The rest of a block, or a part of it.
SendContinuation ==
    /\ peer.stage = "block"
    /\ \E cut \in 1 .. Len(peer.rest) :
          LET last == cut = Len(peer.rest)
          IN  /\ Reads(ReadHeaders(conn, SubSeq(peer.rest, 1, cut), last, FALSE))
              /\ peer' = [peer EXCEPT !.rest = SubSeq(@, cut + 1, Len(@)), !.block = @ + cut,
                    !.stage = IF ~last THEN @ ELSE IF peer.status = 0 THEN "start"
                              ELSE IF peer.ends THEN "done" ELSE "body"]

SendData(n, endStream) ==
    /\ peer.stage = "body"
    /\ Reads(ReadData(conn, n, endStream))
    /\ peer' = [peer EXCEPT !.len = @ + n, !.stage = IF endStream THEN "done" ELSE @]

\* SETTINGS, PING and WINDOW_UPDATE, PRIORITY, a reset of another stream, or a type the
\* client does not know: acknowledged if need be, and without effect.
SendOther ==
    /\ peer.stage \in {"start", "body"}
    /\ Reads(conn)
    /\ UNCHANGED peer

\* The connection breaks, the stream is reset, the server announces that it will close
\* (GOAWAY, which lets a stream that was opened finish, but not here), or a frame comes
\* that no server should send.
GoesAway ==
    /\ conn.result = "reading"
    /\ conn' = Fails(conn)
    /\ peer' = [peer EXCEPT !.gone = TRUE]

H2Open == conn.result # "reading" /\ peer' = PeerOpens /\ conn' = ConnOpens

H2Next ==
    \/ SendInterim \/ SendFinal \/ SendTrailers \/ SendContinuation
    \/ \E n \in 0 .. OutCap + 1, endStream \in BOOLEAN : SendData(n, endStream)
    \/ SendOther \/ GoesAway \/ H2Open

H2Spec == H2Init /\ [][H2Next]_h2Vars
-----------------------------------------------------------------------------
\* h2.h: "Returns 0 when a complete response arrived".  However the server compresses
\* its headers, cuts its blocks, and precedes and follows its response: what is returned
\* is the status and the whole body it sent; and a response is refused only because the
\* server went away or because it outgrew one of the client's fixed sizes.
WholeOrNothing ==
    /\ conn.result = "done" => /\ peer.stage = "done"
                               /\ conn.status = peer.status /\ conn.len = peer.len
    /\ peer.stage = "done" => conn.result # "reading"
    /\ conn.result = "failed" =>
          \/ peer.gone \/ peer.huge \/ peer.len > OutCap \/ peer.block > HblockMax
          \/ conn.frames > H2_MAX_FRAMES
=============================================================================
