------------------------------ MODULE Transfer ------------------------------
(***************************************************************************)
(* Moving one path from the source machine to the destination machine      *)
(* (core/sync/mod.rs, web_api.rs, machines.rs, sync/delta.rs).  The sender *)
(* reads the file, which may change under it, and talks to handlers of the *)
(* receiver, which all work on one temporary file by its path.  A handler  *)
(* runs on after its sender gave up waiting; requests are repeated by the  *)
(* connection pool and by the retry loop; the receiver may crash or lose   *)
(* power.  Contents are short sequences; a hash is the content itself.     *)
(***************************************************************************)
EXTENDS Naturals, Sequences, FiniteSets

CONSTANTS
    Content,     \* versions of the source path: [kind |-> "file" | "link", data |-> Seq]
    BlockLen,    \* length of a delta block
    Zero,        \* what lost or never written data reads as
    Inode, Slot, \* a pool of files; requests in flight
    None,
    MaxAttempt,  \* TRANSFER_RETRY_ATTEMPTS
    Mode,        \* the ways a file may be sent
    Absent, Differs,  \* no file; a file no comparison takes for a version
    Bound        \* of edits, passes, requests left running, faults

Ver == DOMAIN Content
Size(v) == Len(Content[v].data)

ASSUME TransferAssumption ==
    /\ 1 \in Ver /\ \A v \in Ver : v \in Nat \ {0}
    /\ \A v \in Ver : /\ Content[v].kind \in {"file", "link"}
                      /\ Content[v].data \in Seq({Content[v].data[i] : i \in DOMAIN Content[v].data})
                      /\ \A i \in 1..Size(v) : Content[v].data[i] # Zero
    /\ None \notin Ver \cup Inode \cup Slot \cup {Absent, Differs}
    /\ IsFiniteSet(Inode) /\ IsFiniteSet(Slot)
    /\ Cardinality(Inode) > 2 * (Cardinality(Slot) + 1)  \* a new file can always be made
    /\ Bound \in [edits : Nat, passes : Nat, late : Nat, faults : Nat, rare : BOOLEAN]
    /\ BlockLen \in Nat \ {0} /\ MaxAttempt \in Nat \ {0}
    /\ Mode \subseteq {"put", "batch", "stream", "chunk", "delta"}

VARIABLES
    src,     \* the version at the source now; its number stands for its mtime
    disk,    \* files of the receiver: kind, data, mtime (0: just written), synced
    tmp,     \* .auto_sync_tmp/<cycle>/<path>.tmp.<process>
    fin,     \* the final path
    snd,     \* the sender
    req,     \* the requests in flight and their handlers
    late,    \* history: a request given up was running during this transfer
    left     \* what the environment may still do

vars == <<src, disk, tmp, fin, snd, req, late, left>>

----------------------------------------------------------------------------
(* The block delta. *)

BlocksOf(data) ==
    [k \in 1..(Len(data) \div BlockLen) |-> SubSeq(data, (k - 1) * BlockLen + 1, k * BlockLen)]

Literal(x) == [op |-> "literal", val |-> x, at |-> 0]
Copy(k) == [op |-> "copy", val |-> Zero, at |-> (k - 1) * BlockLen]

\* The first block wins among equal ones.
BuildDelta(new, blocks) ==
    LET hits(w) == {k \in DOMAIN blocks : blocks[k] = w}
        scan[i \in 1..(Len(new) + BlockLen)] ==
            IF i + BlockLen > Len(new) + 1
            THEN [j \in 1..(Len(new) + 1 - i) |-> Literal(new[i + j - 1])]
            ELSE LET h == hits(SubSeq(new, i, i + BlockLen - 1))
                 IN  IF h = {} THEN <<Literal(new[i])>> \o scan[i + 1]
                     ELSE <<Copy(CHOOSE k \in h : \A l \in h : k <= l)>> \o scan[i + BlockLen]
    IN  scan[1]

\* A copy past the end of the basis makes read_exact fail.
DeltaApplies(ops, old) ==
    \A k \in DOMAIN ops : ops[k].op = "copy" => ops[k].at + BlockLen <= Len(old)

ApplyDelta(ops, old) ==
    LET out[k \in 0..Len(ops)] ==
            IF k = 0 THEN <<>>
            ELSE out[k - 1] \o (IF ops[k].op = "copy"
                                THEN SubSeq(old, ops[k].at + 1, ops[k].at + BlockLen)
                                ELSE <<ops[k].val>>)
    IN  out[Len(ops)]

----------------------------------------------------------------------------
(* Requests and files. *)

Free == [pc |-> "free", kind |-> "none", ver |-> 1, off |-> 0, data |-> <<>>, ops |-> <<>>,
         at |-> 0, fd |-> None, basis |-> None, live |-> FALSE]

NewFile == [kind |-> "file", data |-> <<>>, mtime |-> 0, synced |-> FALSE]
FileOf(v) == [kind |-> Content[v].kind, data |-> Content[v].data, mtime |-> v, synced |-> TRUE]

Init ==
    /\ src = 1
    /\ tmp = None
    /\ fin = CHOOSE i \in Inode : TRUE
    /\ disk = [[i \in Inode |-> NewFile] EXCEPT ![fin] = FileOf(1)]
    /\ snd = [pc |-> "idle", ver |-> 1, mode |-> "put", via |-> "put", try |-> 1,
              off |-> 0, buf |-> <<>>, blocks |-> <<>>, slot |-> None, hit |-> FALSE]
    /\ req = [s \in Slot |-> Free]
    /\ late = FALSE
    /\ left = Bound

Busy(s) == req[s].pc \notin {"free", "ok", "err"}
Stale(s) == req[s].pc # "free" /\ ~req[s].live

\* Files are named by the two paths or held open by a handler.
InUse == {tmp, fin} \cup {req[s].fd : s \in Slot} \cup {req[s].basis : s \in Slot}
Unused == CHOOSE i \in Inode : i \notin InUse

\* disk' is d on the files in use afterwards (to be used after tmp', fin', req').
Store(d) == disk' = [i \in Inode |-> IF i \in InUse' THEN d[i] ELSE NewFile]

\* write_all at a position; a hole reads as zeros.
Written(file, at, data) ==
    LET old == file.data
        end == at + Len(data)
    IN  [file EXCEPT
            !.data = [i \in 1..(IF end > Len(old) THEN end ELSE Len(old)) |->
                        IF i > at /\ i <= end THEN data[i - at]
                        ELSE IF i <= Len(old) THEN old[i] ELSE Zero],
            !.mtime = 0, !.synced = FALSE]

\* set_len and O_TRUNC.
Truncated(file, n) == [file EXCEPT !.data = SubSeq(@, 1, n), !.mtime = 0, !.synced = FALSE]

\* The handler of s ends with answer pc; nobody reads the answer to a stale one.
Answer(s, pc) ==
    req' = [req EXCEPT ![s] = IF req[s].live THEN [req[s] EXCEPT !.pc = pc, !.fd = None, !.basis = None] ELSE Free]
AnswerWith(s, off, data) ==
    req' = [req EXCEPT ![s] = IF req[s].live THEN [req[s] EXCEPT !.pc = "ok", !.off = off, !.data = data] ELSE Free]
GoOn(s, pc) == req' = [req EXCEPT ![s].pc = pc]

----------------------------------------------------------------------------
(* The receiver. *)

HandleOffset(s) ==
    LET usable == tmp # None /\ disk[tmp].kind = "file" /\ Len(disk[tmp].data) <= Size(req[s].ver)
    IN  /\ req[s].pc = "new" /\ req[s].kind = "offset"
        /\ UNCHANGED <<src, fin, snd, late, left>>
        /\ AnswerWith(s, IF usable THEN Len(disk[tmp].data) ELSE 0, <<>>)
        /\ tmp' = IF usable THEN tmp ELSE None
        /\ Store(disk)

\* transfer_open_file_stream_target: a body that starts at zero gets a file of
\* its own, any other continues the file that is there.
OpenTarget(s) ==
    /\ req[s].pc = "new" /\ req[s].kind \in {"stream", "chunk"}
    /\ UNCHANGED <<src, fin, snd, late, left>>
    /\ \/ /\ req[s].off = 0
          /\ LET i == Unused
             IN  /\ tmp' = i
                 /\ req' = [req EXCEPT ![s].pc = "body", ![s].fd = i, ![s].at = 0]
                 /\ Store([disk EXCEPT ![i] = NewFile])
       \/ /\ req[s].off > 0
          /\ tmp' = IF tmp = None THEN Unused ELSE tmp
          /\ IF tmp = None \/ Len(disk[tmp].data) < req[s].off
             THEN /\ Answer(s, "err")
                  /\ Store(IF tmp = None THEN [disk EXCEPT ![Unused] = NewFile] ELSE disk)
             ELSE /\ req' = [req EXCEPT ![s].pc = "body", ![s].fd = tmp, ![s].at = req[s].off]
                  /\ Store(IF Len(disk[tmp].data) = req[s].off THEN disk
                           ELSE [disk EXCEPT ![tmp] = Truncated(@, req[s].off)])

\* transfer_receive_file_chunk writes its chunk and answers.
HandleChunk(s) ==
    /\ req[s].pc = "body" /\ req[s].kind = "chunk"
    /\ UNCHANGED <<src, tmp, fin, snd, late, left>>
    /\ Answer(s, "ok")
    /\ Store([disk EXCEPT ![req[s].fd] = Written(@, req[s].at, req[s].data)])

\* put-file-stream writes what has arrived, piece by piece, and answers when
\* the announced length is there or the body breaks off.
HandleStream(s) ==
    /\ req[s].pc = "body" /\ req[s].kind = "stream"
    /\ UNCHANGED <<src, tmp, fin, snd, late, left>>
    /\ IF req[s].data # <<>>
       THEN /\ req' = [req EXCEPT ![s].data = Tail(@), ![s].at = @ + 1]
            /\ Store([disk EXCEPT ![req[s].fd] = Written(@, req[s].at, <<Head(req[s].data)>>)])
       ELSE /\ req[s].at = Size(req[s].ver) \/ ~req[s].live
            /\ Answer(s, IF req[s].at = Size(req[s].ver) THEN "ok" ELSE "err")
            /\ Store(disk)

\* fs::write of put-file and of the staging of put-files-batch: the file at the
\* temporary path is emptied in place, then written.
CreateTmp(s) ==
    LET i == IF tmp = None THEN Unused ELSE tmp
    IN  /\ tmp' = i
        /\ req' = [req EXCEPT ![s].pc = "body", ![s].fd = i, ![s].basis = IF req[s].kind = "delta" THEN fin ELSE None]
        /\ Store([disk EXCEPT ![i] = IF tmp = None THEN NewFile ELSE Truncated(@, 0)])

HandlePut(s) ==
    /\ req[s].kind \in {"put", "batch"}
    /\ UNCHANGED <<src, fin, snd, late, left>>
    /\ \/ req[s].pc = "new" /\ CreateTmp(s)
       \/ /\ req[s].pc = "body"
          /\ req' = [req EXCEPT ![s].pc = "verify", ![s].fd = None]
          /\ UNCHANGED tmp
          /\ Store([disk EXCEPT ![req[s].fd] = Written(@, 0, req[s].data)])

HandleSums(s) ==
    /\ req[s].pc = "new" /\ req[s].kind = "sums"
    /\ AnswerWith(s, 0, IF fin # None /\ disk[fin].kind = "file" THEN BlocksOf(disk[fin].data) ELSE <<>>)
    /\ UNCHANGED <<src, disk, tmp, fin, snd, late, left>>

HandleDelta(s) ==
    /\ req[s].kind = "delta"
    /\ UNCHANGED <<src, fin, snd, late, left>>
    /\ \/ /\ req[s].pc = "new" /\ (fin = None \/ disk[fin].kind # "file")
          /\ Answer(s, "err")
          /\ UNCHANGED <<disk, tmp>>
       \/ /\ req[s].pc = "new" /\ fin # None /\ disk[fin].kind = "file"
          /\ CreateTmp(s)
       \/ /\ req[s].pc = "body"
          /\ LET old == disk[req[s].basis].data
                 ok == DeltaApplies(req[s].ops, old)
                 d == [disk EXCEPT ![req[s].fd] = Written(@, 0, ApplyDelta(req[s].ops, old))]
             IN  IF ~ok \/ tmp = None
                 THEN Answer(s, "err") /\ UNCHANGED tmp /\ Store(IF ok THEN d ELSE disk)
                 ELSE IF Len(d[tmp].data) # Size(req[s].ver)
                 THEN Answer(s, "err") /\ tmp' = None /\ Store(d)
                 ELSE /\ req' = [req EXCEPT ![s].pc = "verify", ![s].fd = None, ![s].basis = None]
                      /\ UNCHANGED tmp /\ Store(d)

HandleLink(s) ==
    LET i == Unused
    IN  /\ req[s].pc = "new" /\ req[s].kind = "link"
        /\ UNCHANGED <<src, fin, snd, late, left>>
        /\ tmp' = i
        /\ GoOn(s, "swap")
        /\ Store([disk EXCEPT ![i] = FileOf(req[s].ver)])

HandleFinish(s) ==
    /\ req[s].pc = "new" /\ req[s].kind = "finish"
    /\ IF tmp = None THEN Answer(s, "err")
       ELSE IF Len(disk[tmp].data) # Size(req[s].ver) THEN Answer(s, "err")
       ELSE GoOn(s, "verify")
    /\ UNCHANGED <<src, disk, tmp, fin, snd, late, left>>

\* Mutant: what was assembled is published without its hash.
VerifyTrusting(s) ==
    /\ req[s].pc = "verify"
    /\ UNCHANGED <<src, disk, tmp, fin, snd, late, left>>
    /\ IF tmp = None THEN Answer(s, "err") ELSE GoOn(s, "sync")

\* Mutant: a temporary file with the wrong hash stays, to be resumed again.
VerifyKeeping(s) ==
    /\ req[s].pc = "verify"
    /\ UNCHANGED <<src, disk, tmp, fin, snd, late, left>>
    /\ IF tmp = None THEN Answer(s, "err")
       ELSE IF disk[tmp].data # req[s].data THEN Answer(s, "err") ELSE GoOn(s, "sync")

\* finish_received_file (and the barrier of put-files-batch): the whole-file
\* hash, the flush, the mtime and the rename, each by the temporary path.
Verify(s) ==
    /\ req[s].pc = "verify"
    /\ UNCHANGED <<src, fin, snd, late, left>>
    /\ IF tmp = None THEN Answer(s, "err") /\ UNCHANGED tmp
       ELSE IF disk[tmp].data # req[s].data THEN Answer(s, "err") /\ tmp' = None
       ELSE GoOn(s, "sync") /\ UNCHANGED tmp
    /\ Store(disk)

Sync(s) ==
    /\ req[s].pc = "sync"
    /\ IF tmp = None THEN Answer(s, "err") /\ UNCHANGED disk
       ELSE GoOn(s, "stamp") /\ disk' = [disk EXCEPT ![tmp].synced = TRUE]
    /\ UNCHANGED <<src, tmp, fin, snd, late, left>>

\* Mutant: the mtime of the source is not set.
StampSkipped(s) ==
    /\ req[s].pc = "stamp"
    /\ GoOn(s, "swap")
    /\ UNCHANGED <<src, disk, tmp, fin, snd, late, left>>

Stamp(s) ==
    /\ req[s].pc = "stamp"
    /\ GoOn(s, "swap")
    /\ disk' = IF tmp = None THEN disk ELSE [disk EXCEPT ![tmp].mtime = req[s].ver]
    /\ UNCHANGED <<src, tmp, fin, snd, late, left>>

\* replace_path: what is of another kind goes to the trash first.
Swap(s) ==
    /\ req[s].pc = "swap"
    /\ UNCHANGED <<src, snd, late, left>>
    /\ IF tmp = None THEN Answer(s, "err") /\ UNCHANGED <<tmp, fin>>
       ELSE IF fin # None /\ disk[fin].kind # disk[tmp].kind
       THEN fin' = None /\ UNCHANGED <<tmp, req>>
       ELSE fin' = tmp /\ tmp' = None /\ Answer(s, "ok")
    /\ Store(disk)

Receiver(s) ==
    \/ HandleOffset(s) \/ OpenTarget(s) \/ HandleChunk(s) \/ HandleStream(s)
    \/ HandlePut(s) \/ HandleSums(s) \/ HandleDelta(s) \/ HandleLink(s)
    \/ HandleFinish(s) \/ Verify(s) \/ Sync(s) \/ Stamp(s) \/ Swap(s)

----------------------------------------------------------------------------
(* The sender. *)

\* ensure_source_stable: size and mtime are still those of the entry.
Stable == src = snd.ver

FreeSlot == CHOOSE s \in Slot : req[s].pc = "free"

\* The request of kind, answered by the slot the sender then waits on.
Ask(kind, off, data, ops, pc) ==
    /\ \E s \in Slot : req[s].pc = "free"
    /\ req' = [req EXCEPT ![FreeSlot] =
                  [Free EXCEPT !.pc = "new", !.kind = kind, !.ver = snd.ver, !.off = off,
                               !.data = data, !.ops = ops, !.live = TRUE]]
    /\ snd' = [snd EXCEPT !.pc = pc, !.slot = FreeSlot]

SenderOnly == UNCHANGED <<src, disk, tmp, fin, late, left>>

\* The answer is read and the connection goes back to the pool.
Hear(pc, next) ==
    /\ req' = [req EXCEPT ![snd.slot] = Free]
    /\ snd' = [next EXCEPT !.pc = pc, !.slot = None]

\* Mutant: every error is retried.
AfterErrorForever == [snd EXCEPT !.pc = "start", !.try = @ + 1, !.slot = None]

\* with_transfer_retry around every error but a changing source and a cancel.
AfterError == IF snd.try < MaxAttempt THEN [snd EXCEPT !.pc = "start", !.try = @ + 1, !.slot = None]
              ELSE [snd EXCEPT !.pc = "failed", !.slot = None]

\* A pass takes an entry of the source's manifest and pushes it; no request of
\* an earlier pass is still running.
Push ==
    /\ snd.pc \in {"idle", "ok", "changing", "failed"}
    /\ left.passes > 0
    /\ left.rare \/ \A s \in Slot : ~Stale(s)
    /\ \E m \in (IF Content[src].kind = "file" THEN Mode ELSE {"link"}) :
         snd' = [snd EXCEPT !.pc = "start", !.ver = src, !.mode = m, !.try = 1, !.hit = FALSE]
    /\ late' = \E s \in Slot : Stale(s)
    /\ left' = [left EXCEPT !.passes = @ - 1]
    /\ UNCHANGED <<src, disk, tmp, fin, req>>

\* transfer_push_file and transfer_push_files_batch: the first request.
Start ==
    /\ snd.pc = "start"
    /\ LET fresh == [snd EXCEPT !.via = snd.mode, !.buf = <<>>, !.off = 0, !.blocks = <<>>]
       IN  \/ snd.mode \in {"put", "batch"} /\ snd' = [fresh EXCEPT !.pc = "read"] /\ UNCHANGED req
           \/ snd.mode \in {"stream", "chunk"} /\ snd' = [fresh EXCEPT !.pc = "offset"] /\ UNCHANGED req
           \/ snd.mode = "delta" /\ snd' = [fresh EXCEPT !.pc = "sums"] /\ UNCHANGED req
           \/ snd.mode = "link" /\ snd' = [fresh EXCEPT !.pc = "link"] /\ UNCHANGED req
    /\ SenderOnly

\* send_file_tcp asks where to resume, then opens the body.
SendOffset == snd.pc = "offset" /\ Ask("offset", 0, <<>>, <<>>, "wait") /\ SenderOnly
SendBody == snd.pc = "open" /\ Ask("stream", snd.off, <<>>, <<>>, "read") /\ SenderOnly
SendSums == snd.pc = "sums" /\ Ask("sums", 0, <<>>, <<>>, "wait") /\ SenderOnly

\* The next piece of the source file as it is now.
Piece == Content[src].data[Len(snd.buf) + 1]
More == Len(snd.buf) < Size(snd.ver)
Readable == Content[src].kind = "file" /\ Len(snd.buf) < Size(src)
Changing == snd' = [snd EXCEPT !.pc = "changing", !.slot = None]

\* fs::read of put-file, batches and deltas.
ReadWhole ==
    /\ snd.pc = "read" /\ snd.via \in {"put", "batch", "delta"} /\ More
    /\ IF Readable THEN snd' = [snd EXCEPT !.buf = Append(@, Piece)] ELSE Changing
    /\ UNCHANGED req
    /\ SenderOnly

\* send_file_body_streamed: pieces before the offset are only hashed.  A source
\* that shrank breaks the body off, with pieces of it still on their way.
ReadStreamed ==
    /\ snd.pc = "read" /\ snd.via = "stream" /\ More
    /\ IF Readable
       THEN /\ snd' = [snd EXCEPT !.buf = Append(@, Piece)]
            /\ req' = IF Len(snd.buf) >= snd.off /\ Busy(snd.slot)
                      THEN [req EXCEPT ![snd.slot].data = Append(@, Piece)] ELSE req
            /\ UNCHANGED late
       ELSE /\ Changing
            /\ req' = [req EXCEPT ![snd.slot] = IF Busy(snd.slot) THEN [req[snd.slot] EXCEPT !.live = FALSE] ELSE Free]
            /\ late' = (late \/ Busy(snd.slot))
    /\ UNCHANGED <<src, disk, tmp, fin, left>>

\* send_file_body_chunked: one request for every piece from the offset on.
ReadChunked ==
    /\ snd.pc = "read" /\ snd.via = "chunk" /\ More
    /\ IF ~Readable THEN Changing /\ UNCHANGED req
       ELSE IF Len(snd.buf) < snd.off THEN snd' = [snd EXCEPT !.buf = Append(@, Piece)] /\ UNCHANGED req
       ELSE /\ \E s \in Slot : req[s].pc = "free"
            /\ req' = [req EXCEPT ![FreeSlot] =
                          [Free EXCEPT !.pc = "new", !.kind = "chunk", !.ver = snd.ver,
                                       !.off = Len(snd.buf), !.data = <<Piece>>, !.live = TRUE]]
            /\ snd' = [snd EXCEPT !.pc = "wait", !.slot = FreeSlot, !.buf = Append(@, Piece)]
    /\ SenderOnly

\* The whole file is read.
ReadDone ==
    /\ snd.pc = "read" /\ ~More
    /\ \/ snd.via = "stream" /\ snd' = [snd EXCEPT !.pc = "wait"] /\ UNCHANGED req
       \/ snd.via = "chunk" /\ snd' = [snd EXCEPT !.pc = "finish"] /\ UNCHANGED req
       \/ snd.via \in {"put", "batch", "delta"} /\ ~Stable /\ Changing /\ UNCHANGED req
       \/ snd.via \in {"put", "batch"} /\ Stable /\ Ask(snd.via, 0, snd.buf, <<>>, "wait")
       \/ /\ snd.via = "delta" /\ Stable
          /\ LET ops == BuildDelta(snd.buf, snd.blocks)
             IN  IF \E k \in DOMAIN ops : ops[k].op = "copy"
                 THEN Ask("delta", 0, snd.buf, ops, "wait")
                 ELSE /\ snd' = [snd EXCEPT !.pc = "offset", !.via = "stream", !.buf = <<>>]
                      /\ UNCHANGED req
    /\ SenderOnly

\* send_symlink_tcp: a link with another target is a changed source, no link an error.
SendLink ==
    /\ snd.pc = "link"
    /\ IF Content[src].kind # "link" THEN snd' = AfterError /\ UNCHANGED req
       ELSE IF Content[src].data # Content[snd.ver].data THEN Changing /\ UNCHANGED req
       ELSE Ask("link", 0, Content[snd.ver].data, <<>>, "wait")
    /\ SenderOnly

SendFinish ==
    /\ snd.pc = "finish"
    /\ IF Stable THEN Ask("finish", 0, snd.buf, <<>>, "wait") ELSE Changing /\ UNCHANGED req
    /\ SenderOnly

\* What the sender does with an answer; a batch reports the file as failed.
Heard ==
    /\ snd.pc = "wait"
    /\ LET r == req[snd.slot]
       IN  \/ /\ r.pc = "err"
              /\ req' = [req EXCEPT ![snd.slot] = Free]
              /\ snd' = IF r.kind = "batch" THEN [snd EXCEPT !.pc = "failed", !.slot = None] ELSE AfterError
           \/ /\ r.pc = "ok"
              /\ \/ r.kind = "offset" /\ Hear(IF snd.via = "stream" THEN "open" ELSE "read", [snd EXCEPT !.off = r.off])
                 \/ r.kind = "sums" /\ r.data = <<>> /\ Hear("offset", [snd EXCEPT !.via = "stream"])
                 \/ r.kind = "sums" /\ r.data # <<>> /\ Hear("read", [snd EXCEPT !.blocks = r.data])
                 \/ r.kind = "chunk" /\ Hear("read", snd)
                 \/ r.kind = "stream" /\ Hear("finish", snd)
                 \/ r.kind \in {"put", "batch", "delta", "link", "finish"} /\ Hear("ok", snd)
    /\ SenderOnly

Sender ==
    \/ Start \/ SendOffset \/ SendBody \/ SendSums \/ ReadWhole \/ ReadStreamed
    \/ ReadChunked \/ ReadDone \/ SendLink \/ SendFinish \/ Heard

----------------------------------------------------------------------------
(* The environment. *)

Edit ==
    /\ left.edits > 0
    /\ src' \in {v \in Ver : v > src}
    /\ left' = [left EXCEPT !.edits = @ - 1]
    /\ UNCHANGED <<disk, tmp, fin, snd, req, late>>

\* A timeout or a broken connection is an error to the sender, a cancel ends the
\* push; the handler runs on.
GiveUp ==
    /\ left.late > 0
    /\ snd.slot # None /\ Busy(snd.slot)
    /\ req' = [req EXCEPT ![snd.slot].live = FALSE]
    /\ \E after \in {AfterError, [snd EXCEPT !.pc = "failed", !.slot = None]} : snd' = [after EXCEPT !.hit = TRUE]
    /\ late' = TRUE
    /\ left' = [left EXCEPT !.late = @ - 1]
    /\ UNCHANGED <<src, disk, tmp, fin>>

\* A request given up before its handler started may have been lost.
Drop(s) ==
    /\ req[s].pc = "new" /\ ~req[s].live
    /\ req' = [req EXCEPT ![s] = Free]
    /\ UNCHANGED <<src, disk, tmp, fin, snd, late, left>>

\* http_request repeats a buffered request once when a pooled connection fails.
Resend ==
    /\ left.late > 0
    /\ snd.pc = "wait" /\ snd.slot # None /\ req[snd.slot].kind # "stream" /\ Busy(snd.slot)
    /\ \E s \in Slot : req[s].pc = "free"
    /\ req' = [req EXCEPT ![snd.slot].live = FALSE,
                          ![FreeSlot] = [req[snd.slot] EXCEPT !.pc = "new", !.fd = None, !.basis = None, !.at = 0]]
    /\ snd' = [snd EXCEPT !.slot = FreeSlot, !.hit = TRUE]
    /\ late' = TRUE
    /\ left' = [left EXCEPT !.late = @ - 1]
    /\ UNCHANGED <<src, disk, tmp, fin>>

LoseReply ==
    /\ left.faults > 0
    /\ snd.pc = "wait" /\ req[snd.slot].pc \in {"ok", "err"}
    /\ req' = [req EXCEPT ![snd.slot] = Free]
    /\ snd' = [AfterError EXCEPT !.hit = TRUE]
    /\ left' = [left EXCEPT !.faults = @ - 1]
    /\ UNCHANGED <<src, disk, tmp, fin, late>>

\* An I/O error ends a handler on its way; what it made stays at the temporary path.
HandlerFails(s) ==
    /\ left.faults > 0
    /\ req[s].pc \in {"body", "verify", "sync", "swap"}
    /\ Answer(s, "err")
    /\ snd' = [snd EXCEPT !.hit = TRUE]
    /\ left' = [left EXCEPT !.faults = @ - 1]
    /\ UNCHANGED <<src, tmp, fin, late>>
    /\ Store(disk)

\* The receiver's process dies; with the power also what was not flushed.  The next
\* process finds its temporary files only if it has the same number (tmp_path).
Crash ==
    /\ left.faults > 0
    /\ UNCHANGED <<src, fin, late>>
    /\ tmp' \in {tmp, None}
    /\ req' = [s \in Slot |-> IF req[s].live /\ Busy(s)
                              THEN [req[s] EXCEPT !.pc = "err", !.fd = None, !.basis = None]
                              ELSE IF req[s].live THEN req[s] ELSE Free]
    /\ \E power \in {FALSE, left.rare \/ left.late = Bound.late} :
         Store([i \in Inode |-> IF power /\ ~disk[i].synced
                                THEN [disk[i] EXCEPT !.data = [k \in DOMAIN @ |-> Zero]] ELSE disk[i]])
    /\ snd' = [snd EXCEPT !.hit = TRUE]
    /\ left' = [left EXCEPT !.faults = @ - 1]

Environment ==
    \/ Edit \/ GiveUp \/ Resend \/ LoseReply \/ Crash
    \/ \E s \in Slot : Drop(s) \/ HandlerFails(s)

Next == Push \/ Sender \/ (\E s \in Slot : Receiver(s)) \/ Environment

Spec == Init /\ [][Next]_vars

----------------------------------------------------------------------------
(* Properties. *)

\* What a comparison with the source says of the file.  It takes the file for
\* the version whose kind, size and mtime it has; a file that passes for an
\* older version without being it still differs from what the source has.
Seen ==
    IF fin = None THEN Absent
    ELSE LET f == disk[fin]
             equal == {v \in Ver : f.kind = Content[v].kind /\ Len(f.data) = Size(v) /\ f.mtime = v}
         IN  IF equal = {} THEN Differs
             ELSE IF f.data = Content[f.mtime].data THEN f.mtime
             ELSE IF f.mtime # src THEN Differs ELSE None

\* Paths name files, requests belong to versions, and no push makes more
\* attempts than TRANSFER_RETRY_ATTEMPTS.
TypeOK ==
    /\ src \in Ver
    /\ {tmp, fin} \subseteq Inode \cup {None}
    /\ \A i \in Inode : disk[i].kind \in {"file", "link"} /\ disk[i].mtime \in Ver \cup {0} /\ disk[i].synced \in BOOLEAN
    /\ \A s \in Slot : Busy(s) => req[s].ver \in Ver /\ req[s].live \in BOOLEAN
    /\ snd.ver \in Ver /\ snd.try \in 1..MaxAttempt /\ snd.slot \in Slot \cup {None}
    /\ late \in BOOLEAN

\* A file that compares equal to what the source has is what the source has:
\* resumed, repeated, given up and interrupted requests never leave a file with
\* the size and mtime of the current version and other content, not even after a
\* power loss (finish_received_file, with_transfer_retry).
NoSilentCorruption == Seen # None

\* A push fails only when the connection or the receiver failed during it or the
\* source changed: what earlier pushes left at the temporary path costs an
\* attempt at most (transfer_file_offset, finish_received_file).
FailsOnlyByFault == snd.pc = "failed" => snd.hit \/ src # snd.ver

Transfers == INSTANCE AtomicReplace WITH
    file <- Seen, sending <- snd.ver,
    state <- IF snd.pc \in {"idle", "ok", "changing", "failed"} THEN snd.pc ELSE "busy"

\* The protocol implements AtomicReplace: readers see whole versions only, and
\* ok is reported only when the version sent is there, through lost replies,
\* crashes and power losses; requests that run on after they were given up may
\* disturb the file, never so that the disturbance goes unnoticed.
ReplacesAtomically == Transfers!Spec
=============================================================================
