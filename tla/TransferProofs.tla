--------------------------- MODULE TransferProofs ---------------------------
(***************************************************************************)
(* Proofs about Transfer: its types for every choice of the constants, and *)
(* where no request outlives its sender (Solo), that no file passes for a  *)
(* version it is not and that the protocol implements AtomicReplace.       *)
(***************************************************************************)
EXTENDS Transfer, FiniteSetTheorems, SequenceTheorems, TLAPS

(* Types. *)

IsFile(f) ==
    /\ DOMAIN f = {"kind", "data", "mtime", "synced"}
    /\ f.kind \in {"file", "link"} /\ f.mtime \in Ver \cup {0} /\ f.synced \in BOOLEAN

IsReq(r) ==
    /\ DOMAIN r = {"pc", "kind", "ver", "off", "data", "ops", "at", "fd", "basis", "live"}
    /\ r.ver \in Ver /\ r.fd \in Inode \cup {None} /\ r.basis \in Inode \cup {None}
    /\ r.live \in BOOLEAN

IsSnd(x) ==
    /\ DOMAIN x = {"pc", "ver", "mode", "via", "try", "off", "buf", "blocks", "slot", "hit"}
    /\ x.ver \in Ver /\ x.try \in 1..MaxAttempt /\ x.slot \in Slot \cup {None}

DiskType == disk = [i \in Inode |-> disk[i]] /\ \A i \in Inode : IsFile(disk[i])
ReqType == req = [s \in Slot |-> req[s]] /\ \A s \in Slot : IsReq(req[s])
PathType == tmp \in Inode \cup {None} /\ fin \in Inode \cup {None}
LeftType ==
    /\ DOMAIN left = {"edits", "passes", "late", "faults", "rare"}
    /\ left.edits \in Nat /\ left.passes \in Nat /\ left.late \in Nat /\ left.faults \in Nat
    /\ left.late <= Bound.late /\ (left.rare <=> Bound.rare)

TypeInv ==
    /\ src \in Ver /\ late \in BOOLEAN
    /\ PathType /\ DiskType /\ ReqType /\ IsSnd(snd) /\ LeftType

----------------------------------------------------------------------------
(* Where no request is given up by its sender or repeated by the connection *)
(* pool.  A stream may still outlive a push whose source shrank.            *)

Solo == Bound.late = 0 /\ ~Bound.rare

Over == {"idle", "ok", "changing", "failed"}
Whole == {"put", "batch", "delta", "finish"}  \* requests that carry the whole content

\* A request in flight is the one its sender waits on, or what is left of a
\* stream that broke off.
Owned ==
    /\ \A s \in Slot : req[s].pc # "free" =>
          \/ snd.slot = s /\ req[s].live /\ req[s].ver = snd.ver
          \/ snd.pc = "changing" /\ ~req[s].live /\ req[s].kind = "stream"
    /\ \A s \in Slot : req[s].kind = "stream" => req[s].pc \in {"new", "body", "ok", "err"}
    /\ snd.slot # None <=> (snd.pc = "wait" \/ (snd.pc = "read" /\ snd.via = "stream"))
    /\ snd.slot # None => req[snd.slot].pc # "free"
    /\ snd.pc = "read" /\ snd.via = "stream" => req[snd.slot].kind = "stream"
    /\ snd.pc = "open" => snd.via = "stream"
    /\ snd.pc = "sums" => snd.via = "delta"
    /\ snd.pc = "wait" /\ req[snd.slot].kind = "sums" => snd.via = "delta"
    /\ snd.pc = "wait" /\ req[snd.slot].kind = "chunk" => snd.via = "chunk"

\* What was read of a source that did not change is a prefix of it, and all of
\* it once the reading is over.
Prefix(v, b) == b = SubSeq(Content[v].data, 1, Len(b)) /\ Len(b) \in 0..Size(v)

Reading ==
    /\ snd.ver <= src
    /\ src = snd.ver /\ snd.pc \notin Over \cup {"start"} => Prefix(src, snd.buf)
    /\ src = snd.ver /\ (snd.pc = "finish" \/ (snd.pc = "wait" /\ req[snd.slot].kind = "stream"))
          => Len(snd.buf) = Size(src)

Carried ==
    \A s \in Slot :
        /\ req[s].pc # "free" /\ req[s].kind \in Whole => req[s].data = Content[req[s].ver].data
        /\ req[s].pc = "verify" => req[s].kind \in Whole

\* Past its check the file at the temporary path is the version.
Assembled ==
    \A s \in Slot :
        /\ req[s].pc \in {"sync", "stamp", "swap"} =>
              tmp # None /\ disk[tmp].data = Content[req[s].ver].data
        /\ req[s].pc \in {"stamp", "swap"} => disk[tmp].synced
        /\ req[s].pc = "swap" => disk[tmp].mtime = req[s].ver

\* A file has an mtime only when it is on disk and what the mtime says.
Stamped ==
    \A i \in Inode : disk[i].mtime # 0 =>
        disk[i].synced /\ disk[i].data = Content[disk[i].mtime].data

\* No handler writes the file at the final path.
Apart ==
    /\ tmp # None => tmp # fin
    /\ \A s \in Slot : req[s].pc = "body" => req[s].fd \in Inode /\ req[s].fd # fin
    /\ fin # None => disk[fin].mtime # 0

SoloInv == TypeInv /\ Owned /\ Reading /\ Carried /\ Assembled /\ Stamped /\ Apart

\* A file that replaces a link within the attempts of one cycle finds the link at
\* the temporary path and is written through it.
LinksStay ==
    \A v, w \in Ver : v < w /\ Content[v].kind = "link" => Content[w].kind = "link"

\* Links are made for versions that are links, files for the others.
Modes ==
    /\ snd.pc # "idle" => (snd.mode = "link" <=> Content[snd.ver].kind = "link")
    /\ snd.pc = "link" => snd.mode = "link"
    /\ snd.mode = "link" => snd.pc \in Over \cup {"start", "link", "wait"}
    /\ \A s \in Slot : req[s].pc # "free" => (req[s].kind = "link" <=> snd.mode = "link")

Kinds ==
    /\ snd.pc = "idle" => tmp = None
    /\ tmp # None /\ disk[tmp].kind = "link" => snd.mode = "link"
    /\ \A s \in Slot : req[s].pc \in {"sync", "stamp", "swap"} => disk[tmp].kind = Content[req[s].ver].kind
    /\ fin # None => disk[fin].kind = Content[disk[fin].mtime].kind

\* An answer says what is so.
Done ==
    \A s \in Slot : req[s].pc = "ok" /\ req[s].kind \in Whole \cup {"link"} =>
        fin # None /\ disk[fin].mtime = req[s].ver

KindInv == SoloInv /\ Modes /\ Kinds /\ Done

----------------------------------------------------------------------------
(* Files and requests. *)

\* Unused picks a file that neither a path names nor a handler holds: the pool is
\* larger than what paths and handlers can name.
LEMMA UnusedIsNew ==
  ASSUME TransferAssumption
  PROVE  Unused \in Inode /\ Unused \notin InUse
  <1> DEFINE F == {req[s].fd : s \in Slot}
             B == {req[s].basis : s \in Slot}
             f == [s \in Slot |-> req[s].fd]
             b == [s \in Slot |-> req[s].basis]
             n == Cardinality(Slot)
  <1>1. IsFiniteSet(Slot) /\ IsFiniteSet(Inode) /\ Cardinality(Inode) > 2 * (n + 1)
    BY DEF TransferAssumption
  <1>2. n \in Nat /\ Cardinality(Inode) \in Nat
    BY <1>1, FS_CardinalityType
  <1>3. f \in Surjection(Slot, F) /\ b \in Surjection(Slot, B)
    BY DEF Surjection
  <1>4. IsFiniteSet(F) /\ Cardinality(F) <= n /\ IsFiniteSet(B) /\ Cardinality(B) <= n
    BY <1>1, <1>3, FS_Surjection
  <1>5. Cardinality(F) \in Nat /\ Cardinality(B) \in Nat
    BY <1>4, FS_CardinalityType
  <1> HIDE DEF F, B, n
  <1>6. IsFiniteSet(F \cup B) /\ Cardinality(F \cup B) <= 2 * n
    <2>1. IsFiniteSet(F \cap B) /\ Cardinality(F \cap B) \in Nat
      BY <1>4, FS_Subset, FS_CardinalityType
    <2>2. IsFiniteSet(F \cup B)
          /\ Cardinality(F \cup B) = Cardinality(F) + Cardinality(B) - Cardinality(F \cap B)
      BY <1>4, FS_Union
    <2>3. QED BY <1>2, <1>4, <1>5, <2>1, <2>2
  <1>7. IsFiniteSet({tmp, fin}) /\ Cardinality({tmp, fin}) <= 2
    <2>1. IsFiniteSet({tmp}) /\ Cardinality({tmp}) = 1
      BY FS_Singleton
    <2>2. {tmp} \cup {fin} = {tmp, fin}
      OBVIOUS
    <2>3. /\ IsFiniteSet({tmp} \cup {fin})
          /\ Cardinality({tmp} \cup {fin}) = IF fin \in {tmp} THEN Cardinality({tmp}) ELSE Cardinality({tmp}) + 1
      BY <2>1, FS_AddElement
    <2>4. Cardinality({tmp} \cup {fin}) <= 2
      <3>1. CASE fin \in {tmp}
        BY ONLY <2>1, <2>3, <3>1
      <3>2. CASE fin \notin {tmp}
        BY ONLY <2>1, <2>3, <3>2
      <3>3. QED BY <3>1, <3>2
    <2>5. QED BY <2>2, <2>3, <2>4
  <1>8. IsFiniteSet(InUse) /\ Cardinality(InUse) <= 2 * n + 2
    <2>1. InUse = {tmp, fin} \cup (F \cup B)
      BY DEF InUse, F, B
    <2>2. IsFiniteSet(F \cup B) /\ Cardinality(F \cup B) \in Nat /\ Cardinality({tmp, fin}) \in Nat
      BY <1>6, <1>7, FS_CardinalityType
    <2>3. IsFiniteSet({tmp, fin} \cap (F \cup B)) /\ Cardinality({tmp, fin} \cap (F \cup B)) \in Nat
      BY <1>7, FS_Subset, FS_CardinalityType
    <2>4. IsFiniteSet(InUse) /\ Cardinality(InUse)
             = Cardinality({tmp, fin}) + Cardinality(F \cup B) - Cardinality({tmp, fin} \cap (F \cup B))
      BY <1>6, <1>7, <2>1, FS_Union
    <2>5. QED BY <1>2, <1>6, <1>7, <2>2, <2>3, <2>4
  <1>9. \E i \in Inode : i \notin InUse
    <2>1. SUFFICES ASSUME Inode \subseteq InUse PROVE FALSE
      OBVIOUS
    <2>2. Cardinality(Inode) <= Cardinality(InUse) /\ Cardinality(InUse) \in Nat
      BY <1>8, <2>1, FS_Subset, FS_CardinalityType
    <2>3. QED BY <1>1, <1>2, <1>8, <2>2
  <1>10. QED BY <1>9 DEF Unused

\* A file just made has no content and no mtime of a version.
LEMMA NewFileIs ==
  IsFile(NewFile) /\ NewFile.kind = "file" /\ NewFile.mtime = 0
  BY DEF IsFile, NewFile

\* A finished file is on disk with the kind, content and mtime of its version.
LEMMA FileOfIs ==
  ASSUME TransferAssumption, NEW v \in Ver
  PROVE  /\ IsFile(FileOf(v)) /\ FileOf(v).synced /\ FileOf(v).mtime = v
         /\ FileOf(v).data = Content[v].data /\ FileOf(v).kind = Content[v].kind
  BY DEF IsFile, FileOf, TransferAssumption

\* A write keeps the kind and takes the mtime of a version away.
LEMMA WrittenIs ==
  ASSUME NEW f, IsFile(f), NEW at, NEW data
  PROVE  IsFile(Written(f, at, data)) /\ Written(f, at, data).mtime = 0
         /\ Written(f, at, data).kind = f.kind
  <1> DEFINE new == [i \in 1..(IF at + Len(data) > Len(f.data) THEN at + Len(data) ELSE Len(f.data)) |->
                        IF i > at /\ i <= at + Len(data) THEN data[i - at]
                        ELSE IF i <= Len(f.data) THEN f.data[i] ELSE Zero]
  <1>1. Written(f, at, data) = [f EXCEPT !.data = new, !.mtime = 0, !.synced = FALSE]
    BY DEF Written
  <1> HIDE DEF new
  <1>2. QED BY <1>1 DEF IsFile

\* A truncation too.
LEMMA TruncatedIs ==
  ASSUME NEW f, IsFile(f), NEW n
  PROVE  IsFile(Truncated(f, n)) /\ Truncated(f, n).mtime = 0 /\ Truncated(f, n).kind = f.kind
  <1> DEFINE new == SubSeq(f.data, 1, n)
  <1>1. Truncated(f, n) = [f EXCEPT !.data = new, !.mtime = 0, !.synced = FALSE]
    BY DEF Truncated
  <1> HIDE DEF new
  <1>2. QED BY <1>1 DEF IsFile

\* Store keeps the files in use and empties the others.
LEMMA StoreTyped ==
  ASSUME NEW d, \A i \in Inode : IsFile(d[i]), Store(d)
  PROVE  DiskType' /\ \A i \in Inode : disk'[i] = d[i] \/ disk'[i] = NewFile
  BY NewFileIs DEF Store, DiskType

\* The files a path names or a handler holds are what the step made of them.
LEMMA StoreKeeps ==
  ASSUME NEW d, Store(d)
  PROVE  /\ tmp' \in Inode => disk'[tmp'] = d[tmp']
         /\ fin' \in Inode => disk'[fin'] = d[fin']
         /\ \A s \in Slot : req'[s].fd \in Inode => disk'[req'[s].fd] = d[req'[s].fd]
  BY DEF Store, InUse

\* A free slot holds nothing, and nobody listens to it.
LEMMA FreeIs ==
  ASSUME TransferAssumption
  PROVE  IsReq(Free) /\ Free.pc = "free" /\ ~Free.live
  BY DEF IsReq, Free, TransferAssumption

\* An answer goes to a live sender only.
LEMMA AnswerIs ==
  ASSUME TransferAssumption, ReqType, NEW s \in Slot, NEW pc \in {"ok", "err"}, Answer(s, pc)
  PROVE  /\ ReqType'
         /\ \A t \in Slot \ {s} : req'[t] = req[t]
         /\ ~req[s].live => req'[s] = Free
         /\ req[s].live => /\ req'[s].pc = pc /\ req'[s].kind = req[s].kind /\ req'[s].ver = req[s].ver
                           /\ req'[s].data = req[s].data /\ req'[s].live
  <1> DEFINE r == req[s]
             new == [r EXCEPT !.pc = pc, !.fd = None, !.basis = None]
  <1>1. req' = [req EXCEPT ![s] = IF r.live THEN new ELSE Free]
    BY DEF Answer
  <1>2. IsReq(r) /\ IsReq(Free)
    BY FreeIs DEF ReqType
  <1>3. new.pc = pc /\ new.kind = r.kind /\ new.ver = r.ver /\ new.data = r.data /\ new.live = r.live
    BY <1>2 DEF IsReq
  <1>4. IsReq(new)
    BY <1>2 DEF IsReq
  <1> HIDE DEF new
  <1>6. req' = [t \in Slot |-> req'[t]] /\ req'[s] = (IF r.live THEN new ELSE Free)
        /\ \A t \in Slot \ {s} : req'[t] = req[t]
    BY <1>1 DEF ReqType
  <1>7. ReqType'
    BY <1>2, <1>4, <1>6 DEF ReqType
  <1>8. QED BY <1>3, <1>6, <1>7

\* The same with a result.
LEMMA AnswerWithIs ==
  ASSUME TransferAssumption, ReqType, NEW s \in Slot, NEW off, NEW data, AnswerWith(s, off, data)
  PROVE  /\ ReqType'
         /\ \A t \in Slot \ {s} : req'[t] = req[t]
         /\ ~req[s].live => req'[s] = Free
         /\ req[s].live => /\ req'[s].pc = "ok" /\ req'[s].kind = req[s].kind
                           /\ req'[s].ver = req[s].ver /\ req'[s].live
  <1> DEFINE r == req[s]
             new == [r EXCEPT !.pc = "ok", !.off = off, !.data = data]
  <1>1. req' = [req EXCEPT ![s] = IF r.live THEN new ELSE Free]
    BY DEF AnswerWith
  <1>2. IsReq(r) /\ IsReq(Free)
    BY FreeIs DEF ReqType
  <1>3. new.pc = "ok" /\ new.kind = r.kind /\ new.ver = r.ver /\ new.live = r.live
    BY <1>2 DEF IsReq
  <1>4. IsReq(new)
    BY <1>2 DEF IsReq
  <1> HIDE DEF new
  <1>6. req' = [t \in Slot |-> req'[t]] /\ req'[s] = (IF r.live THEN new ELSE Free)
        /\ \A t \in Slot \ {s} : req'[t] = req[t]
    BY <1>1 DEF ReqType
  <1>7. ReqType'
    BY <1>2, <1>4, <1>6 DEF ReqType
  <1>8. QED BY <1>3, <1>6, <1>7

\* A request of a handler that is still at it.
LEMMA RequestMoves ==
  ASSUME ReqType, NEW s \in Slot, NEW r, IsReq(r), req' = [req EXCEPT ![s] = r]
  PROVE  ReqType' /\ req'[s] = r /\ \A t \in Slot \ {s} : req'[t] = req[t]
  BY DEF ReqType

\* A handler goes on to its next step with the request as it is.
LEMMA GoOnIs ==
  ASSUME ReqType, NEW s \in Slot, NEW pc \in {"verify", "sync", "stamp", "swap"}, GoOn(s, pc)
  PROVE  /\ ReqType' /\ \A t \in Slot \ {s} : req'[t] = req[t]
         /\ req'[s] = [req[s] EXCEPT !.pc = pc]
         /\ req'[s].pc = pc /\ req'[s].kind = req[s].kind /\ req'[s].ver = req[s].ver
         /\ req'[s].data = req[s].data /\ (req'[s].live <=> req[s].live)
  <1> DEFINE r == [req[s] EXCEPT !.pc = pc]
  <1>1. IsReq(req[s])
    BY DEF ReqType
  <1>2. /\ IsReq(r) /\ r.pc = pc /\ r.kind = req[s].kind /\ r.ver = req[s].ver
        /\ r.data = req[s].data /\ (r.live <=> req[s].live)
    BY <1>1 DEF IsReq
  <1>3. req' = [req EXCEPT ![s] = r]
    BY DEF GoOn
  <1>4. QED BY <1>2, <1>3, RequestMoves

\* What a handler does to the requests: it works on one of them, keeps what that is
\* for, and answers only who still listens.
Moved(s) ==
    /\ ReqType' /\ \A t \in Slot \ {s} : req'[t] = req[t]
    /\ req[s].pc \notin {"free", "ok", "err"}
    /\ \/ ~req[s].live /\ req'[s] = Free
       \/ /\ req'[s].kind = req[s].kind /\ req'[s].ver = req[s].ver
          /\ req'[s].live <=> req[s].live
          /\ req'[s].pc # "free"
          /\ req'[s].pc \in {"ok", "err"} => req[s].live
          /\ req'[s].pc = "verify" => req[s].kind \in Whole
          /\ req[s].kind = "stream" /\ req[s].pc \in {"new", "body"} => req'[s].pc \in {"body", "ok", "err"}
          /\ req[s].kind \in Whole \cup {"link"} => req'[s].data = req[s].data

\* A step of a handler before its check: it leaves the file at the final path alone and
\* gives no file an mtime.
Quiet(s) ==
    /\ Moved(s) /\ UNCHANGED <<src, fin, snd, late, left>>
    /\ PathType' /\ DiskType'
    /\ \A i \in Inode : disk'[i] = disk[i] \/ disk'[i].mtime = 0
    /\ req'[s].pc \notin {"sync", "stamp", "swap"}
    /\ req'[s].pc \in {"ok"} => req[s].kind \notin Whole \cup {"link"}
    /\ Apart =>
        /\ tmp' \in Inode => /\ tmp' # fin
                             /\ disk'[tmp'].kind = "file" \/ (tmp' = tmp /\ disk'[tmp].kind = disk[tmp].kind)
        /\ fin \in Inode => disk'[fin] = disk[fin]
        /\ req'[s].pc = "body" => req'[s].fd \in Inode /\ req'[s].fd # fin

\* To answer is such a move.
LEMMA AnswerMoves ==
  ASSUME TransferAssumption, ReqType, NEW s \in Slot, Answer(s, "ok") \/ Answer(s, "err"),
         req[s].pc \notin {"free", "ok", "err"}
  PROVE  Moved(s) /\ req'[s].pc \in {"free", "ok", "err"}
  <1>1. CASE Answer(s, "ok")
    <2>1. Moved(s)
      BY <1>1, AnswerIs DEF Moved
    <2>2. QED BY <1>1, <2>1, AnswerIs, FreeIs
  <1>2. CASE Answer(s, "err")
    <2>1. Moved(s)
      BY <1>2, AnswerIs DEF Moved
    <2>2. QED BY <1>2, <2>1, AnswerIs, FreeIs
  <1>3. QED BY <1>1, <1>2

\* An answer that changes no file.
LEMMA AnswerQuiet ==
  ASSUME TransferAssumption, TypeInv, NEW s \in Slot, req[s].pc \notin {"free", "ok", "err"},
         Answer(s, "err") \/ (Answer(s, "ok") /\ req[s].kind \notin Whole \cup {"link"}),
         Store(disk), tmp' \in {tmp, None}, UNCHANGED <<src, fin, snd, late, left>>
  PROVE  Quiet(s)
  <1>1. ReqType
    BY DEF TypeInv
  <1>2. Moved(s) /\ req'[s].pc \in {"free", "ok", "err"}
    BY <1>1, AnswerMoves
  <1>3. req'[s].pc = "ok" => req[s].kind \notin Whole \cup {"link"}
    <2>1. CASE Answer(s, "err")
      BY <1>1, <2>1, AnswerIs, FreeIs
    <2>2. QED BY <2>1
  <1>4. DiskType' /\ \A i \in Inode : disk'[i] = disk[i] \/ disk'[i] = NewFile
    BY StoreTyped DEF TypeInv, DiskType
  <1>5. PathType'
    BY DEF TypeInv, PathType
  <1>6. fin \in Inode => disk'[fin] = disk[fin]
    BY StoreKeeps
  <1>7. tmp' \in Inode => tmp' = tmp /\ disk'[tmp'] = disk[tmp]
    BY StoreKeeps DEF TransferAssumption
  <1>8. QED BY <1>2, <1>3, <1>4, <1>5, <1>6, <1>7, NewFileIs DEF Quiet, Apart, TransferAssumption

\* The handlers before the check are quiet, one by one.  The offset is answered from the
\* file at the temporary path; one that cannot be continued is taken away.
LEMMA OffsetQuiet ==
  ASSUME TransferAssumption, TypeInv, NEW s \in Slot, HandleOffset(s)
  PROVE  Quiet(s)
  <1>1. /\ req[s].pc = "new" /\ req[s].kind = "offset" /\ UNCHANGED <<src, fin, snd, late, left>>
        /\ tmp' \in {tmp, None} /\ Store(disk) /\ \E off : AnswerWith(s, off, <<>>)
    BY DEF HandleOffset
  <1>2. Moved(s) /\ req'[s].pc \in {"free", "ok"}
    BY <1>1, AnswerWithIs, FreeIs DEF TypeInv, Moved, Whole
  <1>3. DiskType' /\ \A i \in Inode : disk'[i] = disk[i] \/ disk'[i] = NewFile
    BY <1>1, StoreTyped DEF TypeInv, DiskType
  <1>4. PathType'
    BY <1>1 DEF TypeInv, PathType
  <1>5. fin \in Inode => disk'[fin] = disk[fin]
    BY <1>1, StoreKeeps
  <1>6. tmp' \in Inode => tmp' = tmp /\ disk'[tmp'] = disk[tmp]
    BY <1>1, StoreKeeps DEF TransferAssumption
  <1>7. QED BY <1>1, <1>2, <1>3, <1>4, <1>5, <1>6, NewFileIs, FreeIs DEF Quiet, Apart, Whole, TransferAssumption

\* The block sums are read from the file at the final path.
LEMMA SumsQuiet ==
  ASSUME TransferAssumption, TypeInv, NEW s \in Slot, HandleSums(s)
  PROVE  Quiet(s)
  <1>1. /\ req[s].pc = "new" /\ req[s].kind = "sums" /\ UNCHANGED <<src, disk, tmp, fin, snd, late, left>>
        /\ \E off, data : AnswerWith(s, off, data)
    BY DEF HandleSums
  <1>2. Moved(s) /\ req'[s].pc \in {"free", "ok"}
    BY <1>1, AnswerWithIs, FreeIs DEF TypeInv, Moved, Whole
  <1>3. DiskType' /\ PathType'
    BY <1>1 DEF TypeInv, DiskType, PathType
  <1>4. QED BY <1>1, <1>2, <1>3 DEF Quiet, Apart, Whole, TransferAssumption

\* The end of a chunked upload goes on to the check if the temporary file is as long as the version.
LEMMA FinishQuiet ==
  ASSUME TransferAssumption, TypeInv, NEW s \in Slot, HandleFinish(s)
  PROVE  Quiet(s)
  <1>1. /\ req[s].pc = "new" /\ req[s].kind = "finish" /\ UNCHANGED <<src, disk, tmp, fin, snd, late, left>>
        /\ Answer(s, "err") \/ GoOn(s, "verify")
    BY DEF HandleFinish
  <1>2. Moved(s) /\ req'[s].pc \in {"free", "err", "verify"}
    <2>1. ReqType /\ req[s].pc \notin {"free", "ok", "err"}
      BY <1>1 DEF TypeInv
    <2>2. CASE Answer(s, "err")
      BY <2>1, <2>2, AnswerIs, FreeIs DEF Moved
    <2>3. CASE GoOn(s, "verify")
      BY <1>1, <2>1, <2>3, GoOnIs DEF Moved, Whole
    <2>4. QED BY <1>1, <2>2, <2>3
  <1>3. DiskType' /\ PathType'
    BY <1>1 DEF TypeInv, DiskType, PathType
  <1>4. QED BY <1>1, <1>2, <1>3 DEF Quiet, Apart, TransferAssumption

\* A move that writes one file, at the temporary path or held open.
LEMMA WriteQuiet ==
  ASSUME TransferAssumption, TypeInv, NEW s \in Slot, NEW i, NEW f,
         Moved(s), UNCHANGED <<src, fin, snd, late, left>>,
         req'[s].pc \notin {"sync", "stamp", "swap"},
         req'[s].pc = "ok" => req[s].kind \notin Whole \cup {"link"},
         Store([disk EXCEPT ![i] = f]),
         i \in Inode => IsFile(f) /\ f.mtime = 0 /\ (f.kind = "file" \/ f.kind = disk[i].kind),
         tmp' \in {tmp, None} \/ (tmp' = i /\ i \in Inode /\ f.kind = "file"),
         Apart => i # fin,
         Apart /\ req'[s].pc = "body" => req'[s].fd \in Inode /\ req'[s].fd # fin
  PROVE  Quiet(s)
  <1> DEFINE d == [disk EXCEPT ![i] = f]
  <1>1. \A j \in Inode : /\ IsFile(d[j]) /\ (d[j] = disk[j] \/ d[j].mtime = 0)
                         /\ (j # i => d[j] = disk[j]) /\ (j = i => d[j] = f)
    BY DEF TypeInv, DiskType
  <1>2. Store(d)
    OBVIOUS
  <1> HIDE DEF d
  <1>3. DiskType' /\ \A j \in Inode : disk'[j] = d[j] \/ disk'[j] = NewFile
    BY <1>1, <1>2, StoreTyped
  <1>4. \A j \in Inode : disk'[j] = disk[j] \/ disk'[j].mtime = 0
    BY <1>1, <1>3, NewFileIs
  <1>5. PathType'
    BY DEF TypeInv, PathType
  <1>6. ASSUME Apart, fin \in Inode PROVE disk'[fin] = disk[fin]
    BY <1>1, <1>2, <1>6, StoreKeeps
  <1>7. ASSUME Apart, tmp' \in Inode
        PROVE  /\ tmp' # fin
               /\ disk'[tmp'].kind = "file" \/ (tmp' = tmp /\ disk'[tmp].kind = disk[tmp].kind)
    <2>1. disk'[tmp'] = d[tmp']
      BY <1>2, <1>7, StoreKeeps
    <2>2. CASE tmp' = tmp
      BY <1>1, <1>7, <2>1, <2>2 DEF Apart, TransferAssumption
    <2>3. CASE tmp' = i /\ f.kind = "file"
      BY <1>1, <1>7, <2>1, <2>3
    <2>4. QED BY <1>7, <2>2, <2>3 DEF TransferAssumption
  <1>8. QED BY <1>3, <1>4, <1>5, <1>6, <1>7 DEF Quiet

\* A new file at the temporary path, or the one that is there emptied in place.
LEMMA OpenQuiet ==
  ASSUME TransferAssumption, TypeInv, NEW s \in Slot, OpenTarget(s)
  PROVE  Quiet(s)
  <1>1. /\ req[s].pc = "new" /\ req[s].kind \in {"stream", "chunk"} /\ UNCHANGED <<src, fin, snd, late, left>>
        /\ ReqType /\ IsReq(req[s])
    BY DEF OpenTarget, TypeInv, ReqType
  <1>2. Unused \in Inode /\ Unused \notin InUse
    BY UnusedIsNew
  <1>3. Unused # fin
    BY <1>2 DEF InUse
  <1>4. ASSUME NEW i \in Inode, NEW at, Apart => i # fin,
               req' = [req EXCEPT ![s].pc = "body", ![s].fd = i, ![s].at = at]
        PROVE  Moved(s) /\ req'[s].pc = "body" /\ req'[s].fd = i
    <2> DEFINE r == [req[s] EXCEPT !.pc = "body", !.fd = i, !.at = at]
    <2>1. req' = [req EXCEPT ![s] = r]
      BY <1>1, <1>4 DEF ReqType
    <2>2. IsReq(r) /\ r.pc = "body" /\ r.fd = i /\ r.kind = req[s].kind /\ r.ver = req[s].ver
          /\ r.data = req[s].data /\ (r.live <=> req[s].live)
      BY <1>1 DEF IsReq
    <2> HIDE DEF r
    <2>3. ReqType' /\ req'[s] = r /\ \A t \in Slot \ {s} : req'[t] = req[t]
      BY <1>1, <2>1, <2>2, RequestMoves
    <2>4. QED BY <1>1, <2>2, <2>3 DEF Moved
  <1>5. CASE /\ tmp' = Unused
             /\ req' = [req EXCEPT ![s].pc = "body", ![s].fd = Unused, ![s].at = 0]
             /\ Store([disk EXCEPT ![Unused] = NewFile])
    <2>1. Moved(s) /\ req'[s].pc = "body" /\ req'[s].fd = Unused
      BY <1>2, <1>3, <1>4, <1>5
    <2>2. QED BY <1>1, <1>2, <1>3, <1>5, <2>1, NewFileIs, WriteQuiet
  <1>6. CASE Answer(s, "err") /\ Store(disk) /\ tmp' = tmp
    BY <1>1, <1>6, AnswerQuiet
  <1>7. CASE Answer(s, "err") /\ Store([disk EXCEPT ![Unused] = NewFile]) /\ tmp' = Unused
    <2>1. Moved(s) /\ req'[s].pc \in {"free", "ok", "err"}
      BY <1>1, <1>7, AnswerMoves
    <2>2. req'[s].pc # "ok"
      BY <1>1, <1>7, AnswerIs, FreeIs
    <2>3. QED BY <1>1, <1>2, <1>3, <1>7, <2>1, <2>2, NewFileIs, WriteQuiet
  <1>8. CASE /\ tmp # None /\ tmp' = tmp
             /\ req' = [req EXCEPT ![s].pc = "body", ![s].fd = tmp, ![s].at = req[s].off]
             /\ Store(IF Len(disk[tmp].data) = req[s].off THEN disk
                      ELSE [disk EXCEPT ![tmp] = Truncated(disk[tmp], req[s].off)])
    <2>1. tmp \in Inode /\ (Apart => tmp # fin) /\ IsFile(disk[tmp])
      BY <1>8 DEF TypeInv, PathType, DiskType, Apart
    <2>2. Moved(s) /\ req'[s].pc = "body" /\ req'[s].fd = tmp
      BY <1>4, <1>8, <2>1
    <2>3. CASE Store([disk EXCEPT ![tmp] = Truncated(disk[tmp], req[s].off)])
      <3> DEFINE f == Truncated(disk[tmp], req[s].off)
      <3>1. IsFile(f) /\ f.mtime = 0 /\ f.kind = disk[tmp].kind
        BY <2>1, TruncatedIs
      <3>2. Store([disk EXCEPT ![tmp] = f])
        BY <2>3
      <3> HIDE DEF f
      <3>3. QED BY <1>1, <1>8, <2>1, <2>2, <3>1, <3>2, WriteQuiet
    <2>4. CASE Store(disk)
      <3>1. DiskType' /\ (\A i \in Inode : disk'[i] = disk[i] \/ disk'[i] = NewFile)
        BY <2>4, StoreTyped DEF TypeInv, DiskType
      <3>2. disk'[tmp'] = disk[tmp] /\ (fin \in Inode => disk'[fin] = disk[fin])
        BY <1>1, <1>8, <2>1, <2>4, StoreKeeps
      <3>3. PathType'
        BY <1>1, <1>8 DEF TypeInv, PathType
      <3>4. QED BY <1>1, <1>8, <2>1, <2>2, <3>1, <3>2, <3>3, NewFileIs DEF Quiet
    <2>5. QED BY <1>8, <2>3, <2>4
  <1>9. QED BY <1>5, <1>6, <1>7, <1>8 DEF OpenTarget

\* A chunk is written to the file its handler opened.
LEMMA ChunkQuiet ==
  ASSUME TransferAssumption, TypeInv, NEW s \in Slot, HandleChunk(s)
  PROVE  Quiet(s)
  <1> DEFINE f == Written(disk[req[s].fd], req[s].at, req[s].data)
  <1>1. /\ req[s].pc = "body" /\ req[s].kind = "chunk" /\ UNCHANGED <<src, tmp, fin, snd, late, left>>
        /\ Answer(s, "ok") /\ Store([disk EXCEPT ![req[s].fd] = f]) /\ ReqType
    BY DEF HandleChunk, TypeInv
  <1>2. Moved(s) /\ req'[s].pc \in {"free", "ok", "err"}
    BY <1>1, AnswerMoves
  <1>3. req[s].fd \in Inode => IsFile(f) /\ f.mtime = 0 /\ f.kind = disk[req[s].fd].kind
    BY WrittenIs DEF TypeInv, DiskType
  <1>4. Apart => req[s].fd # fin
    BY <1>1 DEF Apart
  <1> HIDE DEF f
  <1>5. QED BY <1>1, <1>2, <1>3, <1>4, WriteQuiet DEF Whole

\* So is each piece of a stream.
LEMMA StreamQuiet ==
  ASSUME TransferAssumption, TypeInv, NEW s \in Slot, HandleStream(s)
  PROVE  Quiet(s)
  <1>1. /\ req[s].pc = "body" /\ req[s].kind = "stream" /\ UNCHANGED <<src, tmp, fin, snd, late, left>>
        /\ ReqType /\ IsReq(req[s])
    BY DEF HandleStream, TypeInv, ReqType
  <1>2. CASE (Answer(s, "ok") \/ Answer(s, "err")) /\ Store(disk)
    BY <1>1, <1>2, AnswerQuiet DEF Whole
  <1>3. CASE /\ req' = [req EXCEPT ![s].data = Tail(req[s].data), ![s].at = req[s].at + 1]
             /\ Store([disk EXCEPT ![req[s].fd] =
                          Written(disk[req[s].fd], req[s].at, <<Head(req[s].data)>>)])
    <2> DEFINE f == Written(disk[req[s].fd], req[s].at, <<Head(req[s].data)>>)
               r == [req[s] EXCEPT !.data = Tail(req[s].data), !.at = req[s].at + 1]
    <2>1. req' = [req EXCEPT ![s] = r]
      BY <1>1, <1>3 DEF ReqType
    <2>2. IsReq(r) /\ r.pc = req[s].pc /\ r.fd = req[s].fd /\ r.kind = req[s].kind
          /\ r.ver = req[s].ver /\ (r.live <=> req[s].live)
      BY <1>1 DEF IsReq
    <2> HIDE DEF r
    <2>3. ReqType' /\ req'[s] = r /\ \A t \in Slot \ {s} : req'[t] = req[t]
      BY <1>1, <2>1, <2>2, RequestMoves
    <2>4. Moved(s) /\ req'[s].pc = "body" /\ req'[s].fd = req[s].fd
      BY <1>1, <2>2, <2>3 DEF Moved, Whole
    <2>5. req[s].fd \in Inode => IsFile(f) /\ f.mtime = 0 /\ f.kind = disk[req[s].fd].kind
      BY WrittenIs DEF TypeInv, DiskType
    <2>6. Apart => req[s].fd \in Inode /\ req[s].fd # fin
      BY <1>1 DEF Apart
    <2>7. Store([disk EXCEPT ![req[s].fd] = f])
      BY <1>3
    <2> HIDE DEF f
    <2>8. QED BY <1>1, <2>4, <2>5, <2>6, <2>7, WriteQuiet
  <1>4. QED BY <1>1, <1>2, <1>3 DEF HandleStream

\* fs::write first empties what is at the temporary path, or makes a file there.
LEMMA CreateQuiet ==
  ASSUME TransferAssumption, TypeInv, NEW s \in Slot, req[s].pc = "new", CreateTmp(s),
         UNCHANGED <<src, fin, snd, late, left>>
  PROVE  Quiet(s)
  <1> DEFINE i == IF tmp = None THEN Unused ELSE tmp
             f == IF tmp = None THEN NewFile ELSE Truncated(disk[i], 0)
             b == IF req[s].kind = "delta" THEN fin ELSE None
             r == [req[s] EXCEPT !.pc = "body", !.fd = i, !.basis = b]
  <1>1. Unused \in Inode /\ Unused # fin
    BY UnusedIsNew DEF InUse
  <1>2. i \in Inode /\ (Apart => i # fin) /\ b \in Inode \cup {None} /\ ReqType /\ IsReq(req[s])
    BY <1>1 DEF TypeInv, PathType, ReqType, Apart
  <1>3. IsFile(f) /\ f.mtime = 0 /\ (f.kind = "file" \/ f.kind = disk[i].kind)
        /\ (tmp = None => f.kind = "file")
    <2>1. CASE tmp = None
      BY <2>1, NewFileIs
    <2>2. CASE tmp # None
      <3>1. IsFile(disk[i])
        BY <1>2 DEF TypeInv, DiskType
      <3>2. QED BY <2>2, <3>1, TruncatedIs
    <2>3. QED BY <2>1, <2>2
  <1>4. tmp' = i /\ req' = [req EXCEPT ![s].pc = "body", ![s].fd = i, ![s].basis = b]
        /\ Store([disk EXCEPT ![i] = f])
    BY DEF CreateTmp
  <1>5. req' = [req EXCEPT ![s] = r]
    BY <1>2, <1>4 DEF ReqType
  <1>6. tmp # None => i = tmp
    OBVIOUS
  <1> HIDE DEF i, f, b
  <1>7. IsReq(r) /\ r.pc = "body" /\ r.fd = i /\ r.kind = req[s].kind /\ r.ver = req[s].ver
        /\ r.data = req[s].data /\ (r.live <=> req[s].live)
    BY <1>2 DEF IsReq
  <1> HIDE DEF r
  <1>8. ReqType' /\ req'[s] = r /\ \A t \in Slot \ {s} : req'[t] = req[t]
    BY <1>2, <1>5, <1>7, RequestMoves
  <1>9. Moved(s) /\ req'[s].pc = "body" /\ req'[s].fd = i
    BY <1>7, <1>8 DEF Moved
  <1>10. QED BY <1>2, <1>3, <1>4, <1>6, <1>9, WriteQuiet

\* A handler that has written what it was sent goes on to the check.
LEMMA BodyQuiet ==
  ASSUME TransferAssumption, TypeInv, NEW s \in Slot, req[s].pc = "body", req[s].kind \in Whole,
         NEW f, req[s].fd \in Inode => IsFile(f) /\ f.mtime = 0 /\ f.kind = disk[req[s].fd].kind,
         Store([disk EXCEPT ![req[s].fd] = f]), UNCHANGED <<src, tmp, fin, snd, late, left>>,
         \E b \in Inode \cup {None} : req' = [req EXCEPT ![s].pc = "verify", ![s].fd = None, ![s].basis = b]
  PROVE  Quiet(s)
  <1>1. PICK b \in Inode \cup {None} :
            req' = [req EXCEPT ![s].pc = "verify", ![s].fd = None, ![s].basis = b]
    OBVIOUS
  <1> DEFINE r == [req[s] EXCEPT !.pc = "verify", !.fd = None, !.basis = b]
  <1>2. ReqType /\ IsReq(req[s])
    BY DEF TypeInv, ReqType
  <1>3. req' = [req EXCEPT ![s] = r]
    BY <1>1, <1>2 DEF ReqType
  <1>4. IsReq(r) /\ r.pc = "verify" /\ r.kind = req[s].kind /\ r.ver = req[s].ver
        /\ r.data = req[s].data /\ (r.live <=> req[s].live)
    BY <1>2 DEF IsReq
  <1> HIDE DEF r
  <1>5. ReqType' /\ req'[s] = r /\ \A t \in Slot \ {s} : req'[t] = req[t]
    BY <1>2, <1>3, <1>4, RequestMoves
  <1>6. Moved(s) /\ req'[s].pc = "verify"
    BY <1>4, <1>5 DEF Moved, Whole
  <1>7. Apart => req[s].fd # fin
    BY DEF Apart
  <1>8. QED BY <1>6, <1>7, WriteQuiet

\* A whole file is written by fs::write.
LEMMA PutQuiet ==
  ASSUME TransferAssumption, TypeInv, NEW s \in Slot, HandlePut(s)
  PROVE  Quiet(s)
  <1>1. CASE req[s].pc = "new" /\ CreateTmp(s)
    BY <1>1, CreateQuiet DEF HandlePut
  <1>2. CASE ~(req[s].pc = "new" /\ CreateTmp(s))
    <2> DEFINE f == Written(disk[req[s].fd], 0, req[s].data)
    <2>1. /\ req[s].pc = "body" /\ UNCHANGED <<src, tmp, fin, snd, late, left>>
          /\ req' = [req EXCEPT ![s].pc = "verify", ![s].fd = None]
          /\ Store([disk EXCEPT ![req[s].fd] = f])
      BY <1>2 DEF HandlePut
    <2>2. req[s].fd \in Inode => IsFile(f) /\ f.mtime = 0 /\ f.kind = disk[req[s].fd].kind
      BY WrittenIs DEF TypeInv, DiskType
    <2> HIDE DEF f
    <2>3. req[s].basis \in Inode \cup {None} /\ IsReq(req[s])
      BY DEF TypeInv, ReqType, IsReq
    <2>4. [req EXCEPT ![s].pc = "verify", ![s].fd = None]
            = [req EXCEPT ![s].pc = "verify", ![s].fd = None, ![s].basis = req[s].basis]
      BY <2>3 DEF TypeInv, ReqType, IsReq
    <2>5. req[s].kind \in Whole
      BY DEF HandlePut, Whole
    <2>6. QED BY <2>1, <2>2, <2>3, <2>4, <2>5, BodyQuiet
  <1>3. QED BY <1>1, <1>2

\* A delta is put together from the blocks of its basis and written the same way.
LEMMA DeltaQuiet ==
  ASSUME TransferAssumption, TypeInv, NEW s \in Slot, HandleDelta(s)
  PROVE  Quiet(s)
  <1> DEFINE f == Written(disk[req[s].fd], 0, ApplyDelta(req[s].ops, disk[req[s].basis].data))
  <1>1. req[s].kind = "delta" /\ UNCHANGED <<src, fin, snd, late, left>>
    BY DEF HandleDelta
  <1>2. CASE req[s].pc = "new" /\ Answer(s, "err") /\ UNCHANGED <<disk, tmp>>
    <2>1. Moved(s) /\ req'[s].pc \in {"free", "ok", "err"}
      BY <1>2, AnswerMoves DEF TypeInv
    <2>2. req'[s].pc # "ok"
      BY <1>2, AnswerIs, FreeIs DEF TypeInv
    <2>3. DiskType' /\ PathType'
      BY <1>1, <1>2 DEF TypeInv, DiskType, PathType
    <2>4. QED BY <1>1, <1>2, <2>1, <2>2, <2>3 DEF Quiet, Apart, TransferAssumption
  <1>3. CASE req[s].pc = "new" /\ CreateTmp(s)
    BY <1>1, <1>3, CreateQuiet
  <1>4. req[s].fd \in Inode => IsFile(f) /\ f.mtime = 0 /\ f.kind = disk[req[s].fd].kind
    BY WrittenIs DEF TypeInv, DiskType
  <1>5. CASE req[s].pc = "body" /\ Answer(s, "err") /\ Store(disk) /\ UNCHANGED tmp
    BY <1>1, <1>5, AnswerQuiet
  <1>6. CASE /\ req[s].pc = "body" /\ Answer(s, "err") /\ tmp' \in {tmp, None}
             /\ Store([disk EXCEPT ![req[s].fd] = f])
    <2>1. Moved(s) /\ req'[s].pc \in {"free", "ok", "err"}
      BY <1>6, AnswerMoves DEF TypeInv
    <2>2. req'[s].pc # "ok"
      BY <1>6, AnswerIs, FreeIs DEF TypeInv
    <2>3. Apart => req[s].fd # fin
      BY <1>6 DEF Apart
    <2> HIDE DEF f
    <2>4. QED BY <1>1, <1>4, <1>6, <2>1, <2>2, <2>3, WriteQuiet
  <1>7. CASE /\ req[s].pc = "body" /\ UNCHANGED tmp /\ Store([disk EXCEPT ![req[s].fd] = f])
             /\ req' = [req EXCEPT ![s].pc = "verify", ![s].fd = None, ![s].basis = None]
    <2> HIDE DEF f
    <2>1. QED BY <1>1, <1>4, <1>7, BodyQuiet DEF Whole
  <1>8. QED
    <2>1. CASE req[s].pc = "body"
      <3> DEFINE old == disk[req[s].basis].data
                 ok == DeltaApplies(req[s].ops, old)
                 d == [disk EXCEPT ![req[s].fd] = f]
      <3>1. IF ~ok \/ tmp = None
            THEN Answer(s, "err") /\ UNCHANGED tmp /\ Store(IF ok THEN d ELSE disk)
            ELSE IF Len(d[tmp].data) # Size(req[s].ver)
            THEN Answer(s, "err") /\ tmp' = None /\ Store(d)
            ELSE /\ req' = [req EXCEPT ![s].pc = "verify", ![s].fd = None, ![s].basis = None]
                 /\ UNCHANGED tmp /\ Store(d)
        BY <2>1 DEF HandleDelta
      <3> HIDE DEF f, ok
      <3>2. QED BY <1>5, <1>6, <1>7, <2>1, <3>1
    <2>2. QED BY <1>2, <1>3, <2>1 DEF HandleDelta

----------------------------------------------------------------------------
(* From the check to the rename. *)

\* A step of a handler, whatever it does to the files.
Handled(s) == Moved(s) /\ UNCHANGED <<src, snd, late, left>> /\ PathType' /\ DiskType'

\* GoOn is a move when it does not lead from a stream to the check.
LEMMA GoOnMoves ==
  ASSUME TypeInv, NEW s \in Slot, NEW pc \in {"sync", "stamp", "swap"}, GoOn(s, pc),
         req[s].pc \notin {"free", "ok", "err"},
         req[s].kind = "stream" => req[s].pc \notin {"new", "body"}
  PROVE  Moved(s) /\ req'[s].pc = pc /\ req'[s].kind = req[s].kind
         /\ req'[s].ver = req[s].ver /\ req'[s].data = req[s].data
  <1>1. ReqType
    BY DEF TypeInv
  <1>2. CASE GoOn(s, "sync") /\ pc = "sync"
    BY <1>1, <1>2, GoOnIs DEF Moved
  <1>3. CASE GoOn(s, "stamp") /\ pc = "stamp"
    BY <1>1, <1>3, GoOnIs DEF Moved
  <1>4. CASE GoOn(s, "swap") /\ pc = "swap"
    BY <1>1, <1>4, GoOnIs DEF Moved
  <1>5. QED BY <1>2, <1>3, <1>4

\* A link is made under the temporary path, finished.
LEMMA LinkIs ==
  ASSUME TransferAssumption, TypeInv, NEW s \in Slot, HandleLink(s)
  PROVE  /\ Handled(s) /\ fin' = fin /\ tmp' \in Inode /\ tmp' # fin
         /\ req[s].kind = "link" /\ req'[s].pc = "swap" /\ req'[s].kind = "link" /\ req'[s].ver = req[s].ver
         /\ disk'[tmp'] = FileOf(req[s].ver)
         /\ \A i \in Inode : disk'[i] = disk[i] \/ disk'[i] = NewFile \/ disk'[i] = FileOf(req[s].ver)
         /\ fin \in Inode => disk'[fin] = disk[fin]
  <1> DEFINE i == Unused
             f == FileOf(req[s].ver)
             d == [disk EXCEPT ![i] = f]
  <1>1. /\ req[s].pc = "new" /\ req[s].kind = "link" /\ UNCHANGED <<src, fin, snd, late, left>>
        /\ tmp' = i /\ GoOn(s, "swap") /\ Store(d)
    BY DEF HandleLink
  <1>2. i \in Inode /\ i # fin
    BY UnusedIsNew DEF InUse
  <1>3. IsFile(f)
    BY FileOfIs DEF TypeInv, ReqType, IsReq
  <1> HIDE DEF f, i
  <1>4. (\A j \in Inode : IsFile(d[j]) /\ (d[j] = disk[j] \/ d[j] = f) /\ (j # i => d[j] = disk[j])) /\ d[i] = f
    BY <1>2, <1>3 DEF TypeInv, DiskType
  <1> HIDE DEF d
  <1>5. DiskType' /\ \A j \in Inode : disk'[j] = d[j] \/ disk'[j] = NewFile
    BY <1>1, <1>4, StoreTyped
  <1>6. disk'[tmp'] = f /\ (fin \in Inode => disk'[fin] = disk[fin])
    BY <1>1, <1>2, <1>4, StoreKeeps
  <1>7. Moved(s) /\ req'[s].pc = "swap" /\ req'[s].kind = req[s].kind /\ req'[s].ver = req[s].ver
    BY <1>1, GoOnMoves
  <1>8. PathType'
    BY <1>1, <1>2 DEF TypeInv, PathType
  <1>9. QED BY <1>1, <1>2, <1>4, <1>5, <1>6, <1>7, <1>8 DEF Handled, f

\* The check fails without a trace but at the temporary path, or the handler goes on
\* with the content it was told.
LEMMA VerifyIs ==
  ASSUME TransferAssumption, TypeInv, NEW s \in Slot, Verify(s)
  PROVE  \/ Quiet(s)
         \/ /\ Handled(s) /\ UNCHANGED <<tmp, fin>> /\ tmp \in Inode
            /\ req[s].pc = "verify" /\ req'[s].pc = "sync"
            /\ req'[s].kind = req[s].kind /\ req'[s].ver = req[s].ver
            /\ disk[tmp].data = req[s].data
            /\ disk'[tmp] = disk[tmp] /\ (fin \in Inode => disk'[fin] = disk[fin])
            /\ \A i \in Inode : disk'[i] = disk[i] \/ disk'[i] = NewFile
  <1>1. req[s].pc = "verify" /\ UNCHANGED <<src, fin, snd, late, left>> /\ Store(disk)
    BY DEF Verify
  <1>2. CASE Answer(s, "err") /\ tmp' \in {tmp, None}
    BY <1>1, <1>2, AnswerQuiet
  <1>3. CASE tmp # None /\ disk[tmp].data = req[s].data /\ GoOn(s, "sync") /\ tmp' = tmp
    <2>1. tmp \in Inode /\ PathType'
      BY <1>1, <1>3 DEF TypeInv, PathType
    <2>2. Moved(s) /\ req'[s].pc = "sync" /\ req'[s].kind = req[s].kind /\ req'[s].ver = req[s].ver
      BY <1>1, <1>3, GoOnMoves
    <2>3. DiskType' /\ \A i \in Inode : disk'[i] = disk[i] \/ disk'[i] = NewFile
      BY <1>1, StoreTyped DEF TypeInv, DiskType
    <2>4. disk'[tmp] = disk[tmp] /\ (fin \in Inode => disk'[fin] = disk[fin])
      BY <1>1, <1>3, <2>1, StoreKeeps
    <2>5. QED BY <1>1, <1>3, <2>1, <2>2, <2>3, <2>4 DEF Handled
  <1>4. QED BY <1>2, <1>3 DEF Verify

\* The flush changes nothing a reader sees, the stamp only the mtime.
LEMMA TouchedIs ==
  ASSUME NEW f, IsFile(f), NEW v \in Ver
  PROVE  /\ IsFile([f EXCEPT !.synced = TRUE]) /\ [f EXCEPT !.synced = TRUE].synced
         /\ [f EXCEPT !.synced = TRUE].data = f.data /\ [f EXCEPT !.synced = TRUE].kind = f.kind
         /\ [f EXCEPT !.synced = TRUE].mtime = f.mtime
         /\ IsFile([f EXCEPT !.mtime = v]) /\ [f EXCEPT !.mtime = v].mtime = v
         /\ [f EXCEPT !.mtime = v].data = f.data /\ [f EXCEPT !.mtime = v].kind = f.kind
         /\ ([f EXCEPT !.mtime = v].synced <=> f.synced)
  BY DEF IsFile

\* The flush marks the file at the temporary path as on disk and nothing else.
LEMMA SyncIs ==
  ASSUME TransferAssumption, TypeInv, NEW s \in Slot, Sync(s)
  PROVE  /\ Handled(s) /\ UNCHANGED <<tmp, fin>> /\ req[s].pc = "sync"
         /\ \A i \in Inode \ {tmp} : disk'[i] = disk[i]
         /\ tmp # None =>
              /\ req'[s].pc = "stamp" /\ req'[s].kind = req[s].kind /\ req'[s].ver = req[s].ver
              /\ disk'[tmp].synced /\ disk'[tmp].data = disk[tmp].data
              /\ disk'[tmp].kind = disk[tmp].kind /\ disk'[tmp].mtime = disk[tmp].mtime
  <1>1. req[s].pc = "sync" /\ UNCHANGED <<src, tmp, fin, snd, late, left>>
    BY DEF Sync
  <1>2. PathType'
    BY <1>1 DEF TypeInv, PathType
  <1>3. CASE tmp = None
    <2>1. Answer(s, "err") /\ disk' = disk
      BY <1>3 DEF Sync
    <2>2. Moved(s)
      BY <1>1, <2>1, AnswerMoves DEF TypeInv
    <2>3. QED BY <1>1, <1>2, <1>3, <2>1, <2>2 DEF Handled, TypeInv, DiskType
  <1>4. CASE tmp # None
    <2> DEFINE f == [disk[tmp] EXCEPT !.synced = TRUE]
    <2>1. GoOn(s, "stamp") /\ disk' = [disk EXCEPT ![tmp] = f]
      BY <1>4 DEF Sync
    <2>2. Moved(s) /\ req'[s].pc = "stamp" /\ req'[s].kind = req[s].kind /\ req'[s].ver = req[s].ver
      BY <1>1, <2>1, GoOnMoves
    <2>3. tmp \in Inode /\ IsFile(disk[tmp])
      BY <1>4 DEF TypeInv, PathType, DiskType
    <2>4. IsFile(f) /\ f.synced /\ f.data = disk[tmp].data /\ f.kind = disk[tmp].kind /\ f.mtime = disk[tmp].mtime
      BY <2>3, TouchedIs DEF IsFile, TypeInv
    <2> HIDE DEF f
    <2>5. DiskType' /\ disk'[tmp] = f /\ \A i \in Inode \ {tmp} : disk'[i] = disk[i]
      BY <2>1, <2>3, <2>4 DEF TypeInv, DiskType
    <2>6. QED BY <1>1, <1>2, <1>4, <2>2, <2>4, <2>5 DEF Handled
  <1>5. QED BY <1>3, <1>4

\* The stamp gives the file at the temporary path the mtime of its version.
LEMMA StampIs ==
  ASSUME TransferAssumption, TypeInv, NEW s \in Slot, Stamp(s)
  PROVE  /\ Handled(s) /\ UNCHANGED <<tmp, fin>> /\ req[s].pc = "stamp"
         /\ \A i \in Inode \ {tmp} : disk'[i] = disk[i]
         /\ req'[s].pc = "swap" /\ req'[s].kind = req[s].kind /\ req'[s].ver = req[s].ver
         /\ tmp # None =>
              /\ disk'[tmp].mtime = req[s].ver /\ (disk'[tmp].synced <=> disk[tmp].synced)
              /\ disk'[tmp].data = disk[tmp].data /\ disk'[tmp].kind = disk[tmp].kind
  <1>1. /\ req[s].pc = "stamp" /\ UNCHANGED <<src, tmp, fin, snd, late, left>> /\ GoOn(s, "swap")
        /\ disk' = IF tmp = None THEN disk ELSE [disk EXCEPT ![tmp].mtime = req[s].ver]
    BY DEF Stamp
  <1>2. PathType'
    BY <1>1 DEF TypeInv, PathType
  <1>3. Moved(s) /\ req'[s].pc = "swap" /\ req'[s].kind = req[s].kind /\ req'[s].ver = req[s].ver
    BY <1>1, GoOnMoves
  <1>4. CASE tmp = None
    BY <1>1, <1>2, <1>3, <1>4 DEF Handled, TypeInv, DiskType
  <1>5. CASE tmp # None
    <2> DEFINE f == [disk[tmp] EXCEPT !.mtime = req[s].ver]
    <2>1. disk' = [disk EXCEPT ![tmp] = f]
      BY <1>1, <1>5
    <2>2. tmp \in Inode /\ IsFile(disk[tmp]) /\ req[s].ver \in Ver
      BY <1>5 DEF TypeInv, PathType, DiskType, ReqType, IsReq
    <2>3. IsFile(f) /\ f.mtime = req[s].ver /\ f.data = disk[tmp].data /\ f.kind = disk[tmp].kind
          /\ (f.synced <=> disk[tmp].synced)
      BY <2>2 DEF IsFile
    <2> HIDE DEF f
    <2>4. DiskType' /\ disk'[tmp] = f /\ \A i \in Inode \ {tmp} : disk'[i] = disk[i]
      BY <2>1, <2>2, <2>3 DEF TypeInv, DiskType
    <2>5. QED BY <1>1, <1>2, <1>3, <1>5, <2>3, <2>4 DEF Handled
  <1>6. QED BY <1>4, <1>5

\* The rename puts the file at the temporary path in place; what is of another kind
\* leaves the final path in a step of its own.
LEMMA SwapIs ==
  ASSUME TransferAssumption, TypeInv, NEW s \in Slot, Swap(s)
  PROVE  /\ Handled(s) /\ req[s].pc = "swap"
         /\ \A i \in Inode : disk'[i] = disk[i] \/ disk'[i] = NewFile
         /\ tmp # None =>
            /\ disk'[tmp] = disk[tmp]
            /\ \/ fin # None /\ disk[fin].kind # disk[tmp].kind /\ fin' = None /\ UNCHANGED <<tmp, req>>
               \/ /\ fin' = tmp /\ tmp' = None
                  /\ req'[s].pc \in {"free", "ok"} /\ (req[s].live => req'[s].pc = "ok")
  <1>1. req[s].pc = "swap" /\ UNCHANGED <<src, snd, late, left>> /\ Store(disk)
    BY DEF Swap
  <1>2. DiskType' /\ \A i \in Inode : disk'[i] = disk[i] \/ disk'[i] = NewFile
    BY <1>1, StoreTyped DEF TypeInv, DiskType
  <1>3. CASE tmp = None
    <2>1. Answer(s, "err") /\ UNCHANGED <<tmp, fin>>
      BY <1>3 DEF Swap
    <2>2. Moved(s)
      BY <1>1, <2>1, AnswerMoves DEF TypeInv
    <2>3. QED BY <1>1, <1>2, <1>3, <2>1, <2>2 DEF Handled, TypeInv, PathType
  <1>4. CASE tmp # None /\ fin # None /\ disk[fin].kind # disk[tmp].kind
    <2>1. fin' = None /\ UNCHANGED <<tmp, req>>
      BY <1>4 DEF Swap
    <2>2. Moved(s)
      BY <1>1, <2>1 DEF Moved, TypeInv, ReqType
    <2>3. disk'[tmp] = disk[tmp] /\ PathType'
      BY <1>1, <1>4, <2>1, StoreKeeps DEF TypeInv, PathType
    <2>4. QED BY <1>1, <1>2, <1>4, <2>1, <2>2, <2>3 DEF Handled
  <1>5. CASE tmp # None /\ ~(fin # None /\ disk[fin].kind # disk[tmp].kind)
    <2>1. fin' = tmp /\ tmp' = None /\ Answer(s, "ok")
      BY <1>5 DEF Swap
    <2>2. Moved(s)
      BY <1>1, <2>1, AnswerMoves DEF TypeInv
    <2>3. req'[s].pc \in {"free", "ok"} /\ (req[s].live => req'[s].pc = "ok")
      BY <2>1, AnswerIs, FreeIs DEF TypeInv
    <2>4. disk'[tmp] = disk[tmp] /\ PathType'
      BY <1>1, <1>5, <2>1, StoreKeeps DEF TypeInv, PathType
    <2>5. QED BY <1>1, <1>2, <1>5, <2>1, <2>2, <2>3, <2>4 DEF Handled
  <1>6. QED BY <1>3, <1>4, <1>5

----------------------------------------------------------------------------
(* Steps of the sender. *)

\* A step of the sender: it works on its own record and on the request it waits on.
Sends ==
    /\ IsSnd(snd') /\ ReqType' /\ late' \in BOOLEAN
    /\ snd'.ver = snd.ver /\ snd'.mode = snd.mode
    /\ UNCHANGED <<src, disk, tmp, fin, left>>

\* A request goes to a free slot, for the version that is sent.
Asked(kind, data, pc) ==
    /\ Sends /\ FreeSlot \in Slot /\ req[FreeSlot].pc = "free"
    /\ \A t \in Slot \ {FreeSlot} : req'[t] = req[t]
    /\ req'[FreeSlot].pc = "new" /\ req'[FreeSlot].kind = kind /\ req'[FreeSlot].ver = snd.ver
    /\ req'[FreeSlot].data = data /\ req'[FreeSlot].live
    /\ snd'.pc = pc /\ snd'.slot = FreeSlot /\ snd'.via = snd.via /\ snd'.buf = snd.buf

\* A request is made with what the sender read, and the sender waits on it.
LEMMA AskIs ==
  ASSUME TransferAssumption, TypeInv, NEW kind, NEW off, NEW data, NEW ops, NEW pc,
         Ask(kind, off, data, ops, pc), SenderOnly
  PROVE  Asked(kind, data, pc) /\ late' = late
  <1> DEFINE r == [Free EXCEPT !.pc = "new", !.kind = kind, !.ver = snd.ver, !.off = off,
                               !.data = data, !.ops = ops, !.live = TRUE]
             x == [snd EXCEPT !.pc = pc, !.slot = FreeSlot]
  <1>1. FreeSlot \in Slot /\ req[FreeSlot].pc = "free"
    BY DEF Ask, FreeSlot
  <1>2. req' = [req EXCEPT ![FreeSlot] = r] /\ snd' = x
    BY DEF Ask
  <1>3. IsReq(Free) /\ IsSnd(snd) /\ ReqType
    BY FreeIs DEF TypeInv
  <1>4. IsReq(r) /\ r.pc = "new" /\ r.kind = kind /\ r.ver = snd.ver /\ r.data = data /\ r.live
    BY <1>3 DEF IsReq, IsSnd
  <1> HIDE DEF r
  <1>5. ReqType' /\ req'[FreeSlot] = r /\ \A t \in Slot \ {FreeSlot} : req'[t] = req[t]
    BY <1>1, <1>2, <1>3, <1>4, RequestMoves
  <1>6. IsSnd(x) /\ x.pc = pc /\ x.slot = FreeSlot /\ x.via = snd.via /\ x.buf = snd.buf
        /\ x.ver = snd.ver /\ x.mode = snd.mode
    BY <1>1, <1>3 DEF IsSnd
  <1> HIDE DEF x
  <1>7. QED BY <1>1, <1>2, <1>4, <1>5, <1>6 DEF Asked, Sends, SenderOnly, TypeInv

\* Changing and AfterError end the attempt.
LEMMA ChangingIs ==
  ASSUME TransferAssumption, TypeInv, Changing
  PROVE  IsSnd(snd') /\ snd'.pc = "changing" /\ snd'.slot = None
         /\ snd'.ver = snd.ver /\ snd'.mode = snd.mode
  <1>1. snd' = [snd EXCEPT !.pc = "changing", !.slot = None] /\ IsSnd(snd)
    BY DEF Changing, TypeInv
  <1>2. QED BY <1>1 DEF IsSnd

\* After an error the sender tries again or has failed, with the same version.
LEMMA AfterErrorIs ==
  ASSUME TransferAssumption, TypeInv
  PROVE  /\ IsSnd(AfterError) /\ AfterError.pc \in {"start", "failed"} /\ AfterError.slot = None
         /\ AfterError.ver = snd.ver /\ AfterError.mode = snd.mode
         /\ IsSnd([AfterError EXCEPT !.hit = TRUE]) /\ [AfterError EXCEPT !.hit = TRUE].pc \in {"start", "failed"}
         /\ [AfterError EXCEPT !.hit = TRUE].slot = None
         /\ [AfterError EXCEPT !.hit = TRUE].ver = snd.ver /\ [AfterError EXCEPT !.hit = TRUE].mode = snd.mode
  <1>1. IsSnd(snd) /\ MaxAttempt \in Nat
    BY DEF TypeInv, TransferAssumption
  <1>2. IsSnd(AfterError) /\ AfterError.pc \in {"start", "failed"} /\ AfterError.slot = None
        /\ AfterError.ver = snd.ver /\ AfterError.mode = snd.mode
    <2>1. CASE snd.try < MaxAttempt
      <3>1. AfterError = [snd EXCEPT !.pc = "start", !.try = snd.try + 1, !.slot = None]
        BY <2>1 DEF AfterError
      <3>2. snd.try + 1 \in 1..MaxAttempt
        BY <1>1, <2>1 DEF IsSnd
      <3>3. QED BY <1>1, <3>1, <3>2 DEF IsSnd
    <2>2. CASE ~(snd.try < MaxAttempt)
      <3>1. AfterError = [snd EXCEPT !.pc = "failed", !.slot = None]
        BY <2>2 DEF AfterError
      <3>2. QED BY <1>1, <3>1 DEF IsSnd
    <2>3. QED BY <2>1, <2>2
  <1>3. QED BY <1>2 DEF IsSnd

\* An attempt starts with an empty buffer, by the way of its mode.
LEMMA StartIs ==
  ASSUME TransferAssumption, TypeInv, Start
  PROVE  /\ Sends /\ req' = req /\ snd.pc = "start" /\ snd'.slot = snd.slot /\ snd'.buf = <<>>
         /\ \/ snd.mode \in {"put", "batch"} /\ snd'.pc = "read" /\ snd'.via = snd.mode
            \/ snd.mode \in {"stream", "chunk"} /\ snd'.pc = "offset"
            \/ snd.mode = "delta" /\ snd'.pc = "sums" /\ snd'.via = snd.mode
            \/ snd.mode = "link" /\ snd'.pc = "link"
  <1> DEFINE fresh == [snd EXCEPT !.via = snd.mode, !.buf = <<>>, !.off = 0, !.blocks = <<>>]
             ok(pc) == [fresh EXCEPT !.pc = pc]
  <1>1. snd.pc = "start" /\ SenderOnly /\ req' = req /\ IsSnd(snd) /\ ReqType'
    BY DEF Start, TypeInv, ReqType
  <1>2. \A pc : /\ IsSnd(ok(pc)) /\ ok(pc).pc = pc /\ ok(pc).slot = snd.slot /\ ok(pc).buf = <<>>
                /\ ok(pc).ver = snd.ver /\ ok(pc).mode = snd.mode /\ ok(pc).via = snd.mode
    BY <1>1 DEF IsSnd
  <1>3. \/ snd.mode \in {"put", "batch"} /\ snd' = ok("read")
        \/ snd.mode \in {"stream", "chunk"} /\ snd' = ok("offset")
        \/ snd.mode = "delta" /\ snd' = ok("sums")
        \/ snd.mode = "link" /\ snd' = ok("link")
    BY DEF Start
  <1> HIDE DEF ok
  <1>4. QED BY <1>1, <1>2, <1>3 DEF Sends, SenderOnly, TypeInv

\* A piece that was read goes to the end of the buffer.
LEMMA ReadIs ==
  ASSUME TransferAssumption, TypeInv, snd' = [snd EXCEPT !.buf = Append(snd.buf, Piece)]
  PROVE  /\ IsSnd(snd') /\ snd'.buf = Append(snd.buf, Piece) /\ snd'.pc = snd.pc /\ snd'.slot = snd.slot
         /\ snd'.via = snd.via /\ snd'.ver = snd.ver /\ snd'.mode = snd.mode
  <1>1. IsSnd(snd)
    BY DEF TypeInv
  <1>2. QED BY <1>1 DEF IsSnd

\* Reading into memory adds a piece, or ends the attempt where the source has changed.
LEMMA ReadWholeIs ==
  ASSUME TransferAssumption, TypeInv, ReadWhole
  PROVE  /\ Sends /\ req' = req /\ snd.pc = "read" /\ snd.via \in {"put", "batch", "delta"}
         /\ \/ /\ Readable /\ snd'.buf = Append(snd.buf, Piece) /\ snd'.pc = "read"
               /\ snd'.slot = snd.slot /\ snd'.via = snd.via
            \/ snd'.pc = "changing" /\ snd'.slot = None
  <1>1. /\ snd.pc = "read" /\ snd.via \in {"put", "batch", "delta"} /\ req' = req /\ SenderOnly /\ ReqType'
        /\ IF Readable THEN snd' = [snd EXCEPT !.buf = Append(snd.buf, Piece)] ELSE Changing
    BY DEF ReadWhole, TypeInv, ReqType
  <1>2. CASE Readable
    BY <1>1, <1>2, ReadIs DEF Sends, SenderOnly, TypeInv
  <1>3. CASE ~Readable
    BY <1>1, <1>3, ChangingIs DEF Sends, SenderOnly, TypeInv
  <1>4. QED BY <1>2, <1>3

\* The pieces of a stream go to its request while that lasts.
LEMMA ReadStreamedIs ==
  ASSUME TransferAssumption, TypeInv, ReadStreamed
  PROVE  /\ Sends /\ snd.pc = "read" /\ snd.via = "stream"
         /\ \A t \in Slot : t # snd.slot => req'[t] = req[t]
         /\ \/ /\ Readable /\ snd'.buf = Append(snd.buf, Piece) /\ snd'.pc = "read"
               /\ snd'.slot = snd.slot /\ snd'.via = snd.via /\ late' = late
               /\ snd.slot \in Slot =>
                     LET r == req[snd.slot]
                     IN  /\ req'[snd.slot].pc = r.pc /\ req'[snd.slot].kind = r.kind
                         /\ req'[snd.slot].ver = r.ver /\ (req'[snd.slot].live <=> r.live)
                         /\ req'[snd.slot].fd = r.fd
            \/ /\ snd'.pc = "changing" /\ snd'.slot = None
               /\ snd.slot \in Slot =>
                     LET r == req[snd.slot]
                     IN  \/ req'[snd.slot] = Free /\ late' = late
                         \/ /\ Busy(snd.slot) /\ late' = TRUE
                            /\ req'[snd.slot].pc = r.pc /\ req'[snd.slot].kind = r.kind
                            /\ ~req'[snd.slot].live /\ req'[snd.slot].fd = r.fd
  <1> DEFINE s == snd.slot
             more == [req[s] EXCEPT !.data = Append(req[s].data, Piece)]
             dead == [req[s] EXCEPT !.live = FALSE]
  <1>1. /\ snd.pc = "read" /\ snd.via = "stream" /\ UNCHANGED <<src, disk, tmp, fin, left>>
        /\ ReqType /\ IsSnd(snd) /\ late \in BOOLEAN
    BY DEF ReadStreamed, TypeInv
  <1>2. s \in Slot => /\ IsReq(more) /\ more.pc = req[s].pc /\ more.kind = req[s].kind /\ more.ver = req[s].ver
                      /\ (more.live <=> req[s].live) /\ more.fd = req[s].fd
                      /\ IsReq(dead) /\ dead.pc = req[s].pc /\ dead.kind = req[s].kind
                      /\ ~dead.live /\ dead.fd = req[s].fd
    BY <1>1 DEF ReqType, IsReq
  <1>3. IsReq(Free) /\ (s \in Slot => IsReq(req[s]))
    BY <1>1, FreeIs DEF ReqType
  <1>4. ASSUME NEW r, req' = [req EXCEPT ![s] = r], s \in Slot => IsReq(r)
        PROVE  ReqType' /\ (\A t \in Slot : t # s => req'[t] = req[t]) /\ (s \in Slot => req'[s] = r)
    BY <1>1, <1>4 DEF ReqType
  <1>5. CASE Readable
    <2>1. /\ snd' = [snd EXCEPT !.buf = Append(snd.buf, Piece)] /\ late' = late
          /\ req' = IF Len(snd.buf) >= snd.off /\ Busy(s) THEN [req EXCEPT ![s] = more] ELSE req
      BY <1>1, <1>5 DEF ReadStreamed, ReqType
    <2>2. /\ ReqType' /\ (\A t \in Slot : t # s => req'[t] = req[t])
          /\ s \in Slot => req'[s] = more \/ req'[s] = req[s]
      <3> HIDE DEF more
      <3>1. CASE req' = [req EXCEPT ![s] = more]
        BY <1>2, <1>4, <3>1
      <3>2. CASE req' = req
        BY <1>1, <3>2 DEF ReqType
      <3>3. QED BY <2>1, <3>1, <3>2
    <2> HIDE DEF more
    <2>3. QED BY <1>1, <1>2, <1>5, <2>1, <2>2, ReadIs DEF Sends
  <1>6. CASE ~Readable
    <2>1. /\ Changing /\ late' = (late \/ Busy(s))
          /\ req' = [req EXCEPT ![s] = IF Busy(s) THEN dead ELSE Free]
      BY <1>1, <1>6 DEF ReadStreamed
    <2> HIDE DEF dead
    <2>2. /\ ReqType' /\ (\A t \in Slot : t # s => req'[t] = req[t])
          /\ s \in Slot => req'[s] = IF Busy(s) THEN dead ELSE Free
      BY <1>2, <1>3, <1>4, <2>1
    <2>3. late' \in BOOLEAN /\ (Busy(s) => late' = TRUE) /\ (~Busy(s) => late' = late)
      BY <1>1, <2>1 DEF Busy
    <2>4. QED BY <1>1, <1>2, <2>1, <2>2, <2>3, ChangingIs DEF Sends
  <1>7. QED BY <1>5, <1>6

\* So does reading for chunks; a piece the destination does not have goes out at once.
LEMMA ReadChunkedIs ==
  ASSUME TransferAssumption, TypeInv, ReadChunked
  PROVE  /\ Sends /\ snd.pc = "read" /\ snd.via = "chunk"
         /\ \/ req' = req /\ snd'.pc = "changing" /\ snd'.slot = None
            \/ /\ Readable /\ req' = req /\ snd'.buf = Append(snd.buf, Piece) /\ snd'.pc = "read"
               /\ snd'.slot = snd.slot /\ snd'.via = snd.via
            \/ /\ Readable /\ FreeSlot \in Slot /\ req[FreeSlot].pc = "free"
               /\ \A t \in Slot \ {FreeSlot} : req'[t] = req[t]
               /\ req'[FreeSlot].pc = "new" /\ req'[FreeSlot].kind = "chunk"
               /\ req'[FreeSlot].ver = snd.ver /\ req'[FreeSlot].live
               /\ snd'.pc = "wait" /\ snd'.slot = FreeSlot /\ snd'.via = snd.via
               /\ snd'.buf = Append(snd.buf, Piece)
  <1>1. snd.pc = "read" /\ snd.via = "chunk" /\ SenderOnly /\ ReqType /\ IsSnd(snd) /\ late \in BOOLEAN
    BY DEF ReadChunked, TypeInv
  <1>2. CASE Changing /\ req' = req
    BY <1>1, <1>2, ChangingIs DEF Sends, SenderOnly, ReqType
  <1>3. CASE Readable /\ snd' = [snd EXCEPT !.buf = Append(snd.buf, Piece)] /\ req' = req
    BY <1>1, <1>3, ReadIs DEF Sends, SenderOnly, ReqType
  <1>4. CASE /\ Readable /\ \E s \in Slot : req[s].pc = "free"
             /\ req' = [req EXCEPT ![FreeSlot] =
                           [Free EXCEPT !.pc = "new", !.kind = "chunk", !.ver = snd.ver,
                                        !.off = Len(snd.buf), !.data = <<Piece>>, !.live = TRUE]]
             /\ snd' = [snd EXCEPT !.pc = "wait", !.slot = FreeSlot, !.buf = Append(snd.buf, Piece)]
    <2> DEFINE r == [Free EXCEPT !.pc = "new", !.kind = "chunk", !.ver = snd.ver,
                                 !.off = Len(snd.buf), !.data = <<Piece>>, !.live = TRUE]
    <2>1. FreeSlot \in Slot /\ req[FreeSlot].pc = "free"
      BY <1>4 DEF FreeSlot
    <2>2. IsReq(r) /\ r.pc = "new" /\ r.kind = "chunk" /\ r.ver = snd.ver /\ r.live
      BY <1>1, FreeIs DEF IsReq, IsSnd
    <2>3. req' = [req EXCEPT ![FreeSlot] = r]
      BY <1>4
    <2> HIDE DEF r
    <2>4. ReqType' /\ req'[FreeSlot] = r /\ \A t \in Slot \ {FreeSlot} : req'[t] = req[t]
      BY <1>1, <2>1, <2>2, <2>3, RequestMoves
    <2>5. IsSnd(snd') /\ snd'.pc = "wait" /\ snd'.slot = FreeSlot /\ snd'.via = snd.via
          /\ snd'.buf = Append(snd.buf, Piece) /\ snd'.ver = snd.ver /\ snd'.mode = snd.mode
      BY <1>1, <1>4, <2>1 DEF IsSnd
    <2>6. QED BY <1>1, <1>4, <2>1, <2>2, <2>4, <2>5 DEF Sends, SenderOnly
  <1>5. QED BY <1>2, <1>3, <1>4 DEF ReadChunked

\* The whole content is sent only when it is that of the version, as the source has it.
LEMMA ReadDoneIs ==
  ASSUME TransferAssumption, TypeInv, ReadDone
  PROVE  /\ Sends /\ snd.pc = "read" /\ ~More /\ late' = late
         /\ \/ /\ req' = req /\ snd.via = "stream" /\ snd'.pc = "wait" /\ snd'.slot = snd.slot
               /\ snd'.via = snd.via /\ snd'.buf = snd.buf
            \/ /\ req' = req /\ snd.via = "chunk" /\ snd'.pc = "finish" /\ snd'.slot = snd.slot
               /\ snd'.via = snd.via /\ snd'.buf = snd.buf
            \/ /\ req' = req /\ snd.via \in {"put", "batch", "delta"} /\ snd'.pc = "changing"
               /\ snd'.slot = None
            \/ /\ req' = req /\ snd.via = "delta" /\ snd'.pc = "offset" /\ snd'.slot = snd.slot
               /\ snd'.buf = <<>>
            \/ /\ Stable /\ snd.via \in {"put", "batch", "delta"}
               /\ \E kind \in {"put", "batch", "delta"} : Asked(kind, snd.buf, "wait")
  <1>1. /\ snd.pc = "read" /\ ~More /\ SenderOnly /\ ReqType /\ IsSnd(snd) /\ late' = late
        /\ late \in BOOLEAN
    BY DEF ReadDone, SenderOnly, TypeInv
  <1>2. CASE snd.via = "stream" /\ snd' = [snd EXCEPT !.pc = "wait"] /\ req' = req
    BY <1>1, <1>2 DEF Sends, SenderOnly, IsSnd, ReqType
  <1>3. CASE snd.via = "chunk" /\ snd' = [snd EXCEPT !.pc = "finish"] /\ req' = req
    BY <1>1, <1>3 DEF Sends, SenderOnly, IsSnd, ReqType
  <1>4. CASE snd.via \in {"put", "batch", "delta"} /\ Changing /\ req' = req
    BY <1>1, <1>4, ChangingIs DEF Sends, SenderOnly, ReqType
  <1>5. CASE snd.via = "put" /\ Stable /\ Ask("put", 0, snd.buf, <<>>, "wait")
    <2>1. Asked("put", snd.buf, "wait")
      BY <1>1, <1>5, AskIs
    <2>2. Sends
      BY <2>1 DEF Asked
    <2>3. QED BY <1>1, <1>5, <2>1, <2>2
  <1>6. CASE snd.via = "batch" /\ Stable /\ Ask("batch", 0, snd.buf, <<>>, "wait")
    <2>1. Asked("batch", snd.buf, "wait")
      BY <1>1, <1>6, AskIs
    <2>2. Sends
      BY <2>1 DEF Asked
    <2>3. QED BY <1>1, <1>6, <2>1, <2>2
  <1>7. CASE snd.via = "delta" /\ Stable /\ \E ops : Ask("delta", 0, snd.buf, ops, "wait")
    <2>1. Asked("delta", snd.buf, "wait")
      BY <1>1, <1>7, AskIs
    <2>2. Sends
      BY <2>1 DEF Asked
    <2>3. QED BY <1>1, <1>7, <2>1, <2>2
  <1>8. CASE /\ snd.via = "delta" /\ req' = req
             /\ snd' = [snd EXCEPT !.pc = "offset", !.via = "stream", !.buf = <<>>]
    BY <1>1, <1>8 DEF Sends, SenderOnly, IsSnd, ReqType
  <1>9. QED
    <2>1. CASE snd.via = "delta" /\ Stable
      <3> DEFINE ops == BuildDelta(snd.buf, snd.blocks)
                 copies == \E k \in DOMAIN ops : ops[k].op = "copy"
      <3>1. IF copies THEN Ask("delta", 0, snd.buf, ops, "wait")
            ELSE snd' = [snd EXCEPT !.pc = "offset", !.via = "stream", !.buf = <<>>] /\ req' = req
        BY <2>1 DEF ReadDone, Changing
      <3> HIDE DEF copies, ops
      <3>2. QED BY <1>7, <1>8, <2>1, <3>1
    <2>2. CASE ~(snd.via = "delta" /\ Stable)
      <3>1. \/ snd.via = "stream" /\ snd' = [snd EXCEPT !.pc = "wait"] /\ req' = req
            \/ snd.via = "chunk" /\ snd' = [snd EXCEPT !.pc = "finish"] /\ req' = req
            \/ snd.via \in {"put", "batch", "delta"} /\ ~Stable /\ Changing /\ req' = req
            \/ snd.via \in {"put", "batch"} /\ Stable /\ Ask(snd.via, 0, snd.buf, <<>>, "wait")
        BY <2>2 DEF ReadDone
      <3>2. QED BY <1>2, <1>3, <1>4, <1>5, <1>6, <3>1
    <2>3. QED BY <2>1, <2>2

\* A link is read and sent in one piece.
LEMMA SendLinkIs ==
  ASSUME TransferAssumption, TypeInv, SendLink
  PROVE  /\ Sends /\ snd.pc = "link" /\ late' = late
         /\ \/ req' = req /\ snd'.pc \in {"start", "failed", "changing"} /\ snd'.slot = None
            \/ Asked("link", Content[snd.ver].data, "wait")
  <1>1. snd.pc = "link" /\ SenderOnly /\ ReqType /\ late' = late /\ late \in BOOLEAN
    BY DEF SendLink, SenderOnly, TypeInv
  <1>2. CASE snd' = AfterError /\ req' = req
    BY <1>1, <1>2, AfterErrorIs DEF Sends, SenderOnly, ReqType
  <1>3. CASE Changing /\ req' = req
    BY <1>1, <1>3, ChangingIs DEF Sends, SenderOnly, ReqType
  <1>4. CASE Ask("link", 0, Content[snd.ver].data, <<>>, "wait")
    <2>1. Asked("link", Content[snd.ver].data, "wait")
      BY <1>1, <1>4, AskIs
    <2>2. Sends
      BY <2>1 DEF Asked
    <2>3. QED BY <1>1, <1>4, <2>1, <2>2
  <1>5. QED BY <1>2, <1>3, <1>4 DEF SendLink

\* The end of the chunks is sent for a source that is still what was read.
LEMMA SendFinishIs ==
  ASSUME TransferAssumption, TypeInv, SendFinish
  PROVE  /\ Sends /\ snd.pc = "finish" /\ late' = late
         /\ \/ req' = req /\ snd'.pc = "changing" /\ snd'.slot = None
            \/ Stable /\ Asked("finish", snd.buf, "wait")
  <1>1. snd.pc = "finish" /\ SenderOnly /\ ReqType /\ late' = late /\ late \in BOOLEAN
    BY DEF SendFinish, SenderOnly, TypeInv
  <1>2. CASE Changing /\ req' = req
    BY <1>1, <1>2, ChangingIs DEF Sends, SenderOnly, ReqType
  <1>3. CASE Stable /\ Ask("finish", 0, snd.buf, <<>>, "wait")
    <2>1. Asked("finish", snd.buf, "wait")
      BY <1>1, <1>3, AskIs
    <2>2. Sends
      BY <2>1 DEF Asked
    <2>3. QED BY <1>1, <1>3, <2>1, <2>2
  <1>4. QED BY <1>2, <1>3 DEF SendFinish

\* An answer frees its slot.
LEMMA HeardIs ==
  ASSUME TransferAssumption, TypeInv, Heard
  PROVE  /\ Sends /\ snd.pc = "wait" /\ late' = late /\ snd'.slot = None
         /\ \A t \in Slot : t # snd.slot => req'[t] = req[t]
         /\ snd.slot \in Slot => req'[snd.slot] = Free
         /\ \/ snd'.pc \in {"start", "failed"}
            \/ /\ req[snd.slot].pc = "ok" /\ snd'.buf = snd.buf
               /\ \/ req[snd.slot].kind = "offset" /\ snd'.pc = "open" /\ snd'.via = "stream"
                  \/ /\ req[snd.slot].kind = "offset" /\ snd'.pc = "read"
                     /\ snd.via # "stream" /\ snd'.via = snd.via
                  \/ req[snd.slot].kind = "sums" /\ snd'.pc = "offset"
                  \/ req[snd.slot].kind = "sums" /\ snd'.pc = "read" /\ snd'.via = snd.via
                  \/ req[snd.slot].kind = "chunk" /\ snd'.pc = "read" /\ snd'.via = snd.via
                  \/ req[snd.slot].kind = "stream" /\ snd'.pc = "finish"
                  \/ req[snd.slot].kind \in Whole \cup {"link"} /\ snd'.pc = "ok"
  <1> DEFINE s == snd.slot
             r == req[s]
  <1>1. /\ snd.pc = "wait" /\ SenderOnly /\ ReqType /\ IsSnd(snd) /\ late' = late /\ late \in BOOLEAN
        /\ req' = [req EXCEPT ![s] = Free]
    BY DEF Heard, Hear, SenderOnly, TypeInv
  <1>2. /\ ReqType' /\ (\A t \in Slot : t # s => req'[t] = req[t]) /\ (s \in Slot => req'[s] = Free)
    BY <1>1, FreeIs DEF ReqType
  <1>3. CASE r.pc = "err"
    <2>1. snd' = [snd EXCEPT !.pc = "failed", !.slot = None] \/ snd' = AfterError
      BY <1>3 DEF Heard
    <2>2. CASE snd' = [snd EXCEPT !.pc = "failed", !.slot = None]
      BY <1>1, <1>2, <2>2 DEF Sends, SenderOnly, IsSnd
    <2>3. CASE snd' = AfterError
      BY <1>1, <1>2, <2>3, AfterErrorIs DEF Sends, SenderOnly
    <2>4. QED BY <2>1, <2>2, <2>3
  <1>4. CASE r.pc = "ok"
    <2> DEFINE to(x, pc) == [x EXCEPT !.pc = pc, !.slot = None]
               resumed == [snd EXCEPT !.off = r.off]
               streamed == [snd EXCEPT !.via = "stream"]
               known == [snd EXCEPT !.blocks = r.data]
    <2>1. /\ \A x, pc : IsSnd(x) => /\ IsSnd(to(x, pc)) /\ to(x, pc).pc = pc /\ to(x, pc).slot = None
                                    /\ to(x, pc).ver = x.ver /\ to(x, pc).mode = x.mode
                                    /\ to(x, pc).buf = x.buf /\ to(x, pc).via = x.via
          /\ \A x \in {resumed, streamed, known} :
                IsSnd(x) /\ x.ver = snd.ver /\ x.mode = snd.mode /\ x.buf = snd.buf
          /\ resumed.via = snd.via /\ known.via = snd.via
      <3>1. \A x, pc : IsSnd(x) => /\ IsSnd(to(x, pc)) /\ to(x, pc).pc = pc /\ to(x, pc).slot = None
                                   /\ to(x, pc).ver = x.ver /\ to(x, pc).mode = x.mode
                                   /\ to(x, pc).buf = x.buf /\ to(x, pc).via = x.via
        BY DEF IsSnd
      <3>2. IsSnd(resumed) /\ resumed.ver = snd.ver /\ resumed.mode = snd.mode /\ resumed.buf = snd.buf
            /\ resumed.via = snd.via
        BY <1>1 DEF IsSnd
      <3>3. IsSnd(streamed) /\ streamed.ver = snd.ver /\ streamed.mode = snd.mode /\ streamed.buf = snd.buf
        BY <1>1 DEF IsSnd
      <3>4. IsSnd(known) /\ known.ver = snd.ver /\ known.mode = snd.mode /\ known.buf = snd.buf
            /\ known.via = snd.via
        BY <1>1 DEF IsSnd
      <3> HIDE DEF to, resumed, streamed, known
      <3>5. QED BY <3>1, <3>2, <3>3, <3>4
    <2>2. \/ r.kind = "offset" /\ snd.via = "stream" /\ snd' = to(resumed, "open")
          \/ r.kind = "offset" /\ snd.via # "stream" /\ snd' = to(resumed, "read")
          \/ r.kind = "sums" /\ snd' = to(streamed, "offset")
          \/ r.kind = "sums" /\ snd' = to(known, "read")
          \/ r.kind = "chunk" /\ snd' = to(snd, "read")
          \/ r.kind = "stream" /\ snd' = to(snd, "finish")
          \/ r.kind \in Whole \cup {"link"} /\ snd' = to(snd, "ok")
      BY <1>4 DEF Heard, Hear, Whole
    <2> HIDE DEF to, resumed, streamed, known
    <2>3. /\ IsSnd(snd') /\ snd'.slot = None /\ snd'.ver = snd.ver /\ snd'.mode = snd.mode
          /\ snd'.buf = snd.buf
      BY <1>1, <2>1, <2>2
    <2>4. \/ r.kind = "offset" /\ snd'.pc = "open" /\ snd'.via = "stream"
          \/ r.kind = "offset" /\ snd'.pc = "read" /\ snd.via # "stream" /\ snd'.via = snd.via
          \/ r.kind = "sums" /\ snd'.pc = "offset"
          \/ r.kind = "sums" /\ snd'.pc = "read" /\ snd'.via = snd.via
          \/ r.kind = "chunk" /\ snd'.pc = "read" /\ snd'.via = snd.via
          \/ r.kind = "stream" /\ snd'.pc = "finish"
          \/ r.kind \in Whole \cup {"link"} /\ snd'.pc = "ok"
      BY <1>1, <2>1, <2>2
    <2>5. QED BY <1>1, <1>2, <1>4, <2>3, <2>4 DEF Sends, SenderOnly
  <1>5. QED BY <1>3, <1>4 DEF Heard

----------------------------------------------------------------------------
(* Passes and the environment. *)

\* left counts down.
LEMMA LeftIs ==
  ASSUME TransferAssumption, LeftType
  PROVE  /\ left.edits > 0 /\ left' = [left EXCEPT !.edits = left.edits - 1] => LeftType'
         /\ left.passes > 0 /\ left' = [left EXCEPT !.passes = left.passes - 1] => LeftType'
         /\ left.faults > 0 /\ left' = [left EXCEPT !.faults = left.faults - 1] => LeftType'
         /\ left.late > 0 /\ left' = [left EXCEPT !.late = left.late - 1] => LeftType'
  <1>1. Bound.late \in Nat
    BY DEF TransferAssumption
  <1>2. ASSUME left.edits > 0, left' = [left EXCEPT !.edits = left.edits - 1] PROVE LeftType'
    BY <1>1, <1>2 DEF LeftType
  <1>3. ASSUME left.passes > 0, left' = [left EXCEPT !.passes = left.passes - 1] PROVE LeftType'
    BY <1>1, <1>3 DEF LeftType
  <1>4. ASSUME left.faults > 0, left' = [left EXCEPT !.faults = left.faults - 1] PROVE LeftType'
    BY <1>1, <1>4 DEF LeftType
  <1>5. ASSUME left.late > 0, left' = [left EXCEPT !.late = left.late - 1] PROVE LeftType'
    BY <1>1, <1>5 DEF LeftType
  <1>6. QED BY <1>2, <1>3, <1>4, <1>5

\* A pass starts for the version the source has, by a way that fits its kind, once no
\* request is left.
LEMMA PushIs ==
  ASSUME TransferAssumption, TypeInv, Push
  PROVE  /\ IsSnd(snd') /\ late' \in BOOLEAN /\ LeftType' /\ UNCHANGED <<src, disk, tmp, fin, req>>
         /\ snd.pc \in Over /\ snd'.pc = "start" /\ snd'.ver = src /\ snd'.slot = snd.slot
         /\ snd'.mode = "link" <=> Content[src].kind = "link"
         /\ Solo => (\A s \in Slot : ~Stale(s)) /\ ~late'
  <1>1. /\ snd.pc \in Over /\ UNCHANGED <<src, disk, tmp, fin, req>> /\ left.passes > 0
        /\ left.rare \/ \A s \in Slot : ~Stale(s)
        /\ left' = [left EXCEPT !.passes = left.passes - 1]
        /\ late' = \E s \in Slot : Stale(s)
    BY DEF Push, Over
  <1>2. PICK m \in (IF Content[src].kind = "file" THEN Mode ELSE {"link"}) :
            snd' = [snd EXCEPT !.pc = "start", !.ver = src, !.mode = m, !.try = 1, !.hit = FALSE]
    BY DEF Push
  <1>3. IsSnd(snd) /\ src \in Ver /\ 1 \in 1..MaxAttempt
    BY DEF TypeInv, TransferAssumption
  <1>4. IsSnd(snd') /\ snd'.pc = "start" /\ snd'.ver = src /\ snd'.slot = snd.slot /\ snd'.mode = m
    BY <1>2, <1>3 DEF IsSnd
  <1>5. m = "link" <=> Content[src].kind = "link"
    BY <1>2, <1>3 DEF TransferAssumption
  <1>6. LeftType'
    BY <1>1, LeftIs DEF TypeInv
  <1>7. Solo => ~left.rare
    BY DEF Solo, TypeInv, LeftType
  <1>8. QED BY <1>1, <1>4, <1>5, <1>6, <1>7

\* An edit changes the source only, to a later version.
LEMMA EditIs ==
  ASSUME TransferAssumption, TypeInv, Edit
  PROVE  /\ src' \in Ver /\ src' > src /\ LeftType' /\ UNCHANGED <<disk, tmp, fin, snd, req, late>>
  BY LeftIs DEF Edit, TypeInv

\* A lost answer is an error to the sender.
LEMMA LoseReplyIs ==
  ASSUME TransferAssumption, TypeInv, LoseReply
  PROVE  /\ IsSnd(snd') /\ ReqType' /\ LeftType' /\ UNCHANGED <<src, disk, tmp, fin, late>>
         /\ snd.pc = "wait" /\ snd'.pc \in {"start", "failed"} /\ snd'.slot = None
         /\ snd'.ver = snd.ver /\ snd'.mode = snd.mode
         /\ \A t \in Slot : t # snd.slot => req'[t] = req[t]
         /\ snd.slot \in Slot => req'[snd.slot] = Free
  <1>1. /\ snd.pc = "wait" /\ UNCHANGED <<src, disk, tmp, fin, late>> /\ left.faults > 0
        /\ req' = [req EXCEPT ![snd.slot] = Free] /\ snd' = [AfterError EXCEPT !.hit = TRUE]
        /\ left' = [left EXCEPT !.faults = left.faults - 1] /\ ReqType
    BY DEF LoseReply, TypeInv
  <1>2. LeftType'
    BY <1>1, LeftIs DEF TypeInv
  <1>3. ReqType' /\ (\A t \in Slot : t # snd.slot => req'[t] = req[t]) /\ (snd.slot \in Slot => req'[snd.slot] = Free)
    BY <1>1, FreeIs DEF ReqType
  <1>4. QED BY <1>1, <1>2, <1>3, AfterErrorIs

\* An I/O error ends a handler.
LEMMA HandlerFailsIs ==
  ASSUME TransferAssumption, TypeInv, NEW s \in Slot, HandlerFails(s)
  PROVE  /\ IsSnd(snd') /\ LeftType' /\ DiskType' /\ UNCHANGED <<src, tmp, fin, late>> /\ Moved(s)
         /\ snd'.pc = snd.pc /\ snd'.ver = snd.ver /\ snd'.mode = snd.mode /\ snd'.slot = snd.slot
         /\ snd'.via = snd.via /\ snd'.buf = snd.buf
         /\ req'[s].pc \in {"free", "err"}
         /\ \A i \in Inode : disk'[i] = disk[i] \/ disk'[i] = NewFile
         /\ tmp \in Inode => disk'[tmp] = disk[tmp]
         /\ fin \in Inode => disk'[fin] = disk[fin]
  <1>1. /\ req[s].pc \in {"body", "verify", "sync", "swap"} /\ UNCHANGED <<src, tmp, fin, late>>
        /\ left.faults > 0 /\ Answer(s, "err") /\ Store(disk)
        /\ snd' = [snd EXCEPT !.hit = TRUE]
        /\ left' = [left EXCEPT !.faults = left.faults - 1]
    BY DEF HandlerFails
  <1>2. LeftType'
    BY <1>1, LeftIs DEF TypeInv
  <1>3. /\ IsSnd(snd') /\ snd'.pc = snd.pc /\ snd'.ver = snd.ver /\ snd'.mode = snd.mode
        /\ snd'.slot = snd.slot /\ snd'.via = snd.via /\ snd'.buf = snd.buf
    BY <1>1 DEF TypeInv, IsSnd
  <1>4. Moved(s)
    BY <1>1, AnswerMoves DEF TypeInv
  <1>5. req'[s].pc \in {"free", "err"}
    BY <1>1, AnswerIs, FreeIs DEF TypeInv
  <1>6. DiskType' /\ \A i \in Inode : disk'[i] = disk[i] \/ disk'[i] = NewFile
    BY <1>1, StoreTyped DEF TypeInv, DiskType
  <1>7. (tmp \in Inode => disk'[tmp] = disk[tmp]) /\ (fin \in Inode => disk'[fin] = disk[fin])
    BY <1>1, StoreKeeps
  <1>8. QED BY <1>1, <1>2, <1>3, <1>4, <1>5, <1>6, <1>7

\* The receiver's process dies.
LEMMA CrashIs ==
  ASSUME TransferAssumption, TypeInv, Crash
  PROVE  /\ IsSnd(snd') /\ ReqType' /\ LeftType' /\ DiskType' /\ UNCHANGED <<src, fin, late>> /\ tmp' \in {tmp, None}
         /\ snd'.pc = snd.pc /\ snd'.ver = snd.ver /\ snd'.mode = snd.mode /\ snd'.slot = snd.slot
         /\ snd'.via = snd.via /\ snd'.buf = snd.buf
         /\ \A s \in Slot :
               /\ ~req[s].live => req'[s] = Free
               /\ req[s].live /\ req[s].pc \in {"free", "ok", "err"} => req'[s] = req[s]
               /\ req[s].live /\ req[s].pc \notin {"free", "ok", "err"} =>
                     /\ req'[s].pc = "err" /\ req'[s].kind = req[s].kind /\ req'[s].ver = req[s].ver
                     /\ req'[s].data = req[s].data /\ req'[s].live
         /\ \A i \in Inode :
               \/ disk'[i] = disk[i] \/ disk'[i] = NewFile
               \/ /\ ~disk[i].synced /\ ~disk'[i].synced
                  /\ disk'[i].mtime = disk[i].mtime /\ disk'[i].kind = disk[i].kind
         /\ \A i \in {tmp', fin} \cap Inode : disk'[i].kind = disk[i].kind /\ disk'[i].mtime = disk[i].mtime
  <1>1. /\ UNCHANGED <<src, fin, late>> /\ tmp' \in {tmp, None} /\ left.faults > 0
        /\ req' = [s \in Slot |-> IF req[s].live /\ Busy(s)
                                  THEN [req[s] EXCEPT !.pc = "err", !.fd = None, !.basis = None]
                                  ELSE IF req[s].live THEN req[s] ELSE Free]
        /\ snd' = [snd EXCEPT !.hit = TRUE]
        /\ left' = [left EXCEPT !.faults = left.faults - 1]
        /\ ReqType
    BY DEF Crash, TypeInv
  <1>2. LeftType'
    BY <1>1, LeftIs DEF TypeInv
  <1>3. /\ IsSnd(snd') /\ snd'.pc = snd.pc /\ snd'.ver = snd.ver /\ snd'.mode = snd.mode
        /\ snd'.slot = snd.slot /\ snd'.via = snd.via /\ snd'.buf = snd.buf
    BY <1>1 DEF TypeInv, IsSnd
  <1>4. ReqType' /\ \A s \in Slot :
               /\ ~req[s].live => req'[s] = Free
               /\ req[s].live /\ req[s].pc \in {"free", "ok", "err"} => req'[s] = req[s]
               /\ req[s].live /\ req[s].pc \notin {"free", "ok", "err"} =>
                     /\ req'[s].pc = "err" /\ req'[s].kind = req[s].kind /\ req'[s].ver = req[s].ver
                     /\ req'[s].data = req[s].data /\ req'[s].live
    <2>1. ASSUME NEW s \in Slot
          PROVE  /\ IsReq(req'[s])
                 /\ ~req[s].live => req'[s] = Free
                 /\ req[s].live /\ req[s].pc \in {"free", "ok", "err"} => req'[s] = req[s]
                 /\ req[s].live /\ req[s].pc \notin {"free", "ok", "err"} =>
                       /\ req'[s].pc = "err" /\ req'[s].kind = req[s].kind /\ req'[s].ver = req[s].ver
                       /\ req'[s].data = req[s].data /\ req'[s].live
      <3> DEFINE r == [req[s] EXCEPT !.pc = "err", !.fd = None, !.basis = None]
      <3>1. IsReq(req[s]) /\ IsReq(Free)
        BY <1>1, FreeIs DEF ReqType
      <3>2. IsReq(r) /\ r.pc = "err" /\ r.kind = req[s].kind /\ r.ver = req[s].ver
            /\ r.data = req[s].data /\ (r.live <=> req[s].live)
        BY <3>1 DEF IsReq
      <3>3. req'[s] = IF req[s].live /\ Busy(s) THEN r ELSE IF req[s].live THEN req[s] ELSE Free
        BY <1>1
      <3> HIDE DEF r
      <3>4. QED BY <3>1, <3>2, <3>3 DEF Busy
    <2>2. req' = [s \in Slot |-> req'[s]]
      BY <1>1
    <2>3. QED BY <2>1, <2>2 DEF ReqType
  <1>5. PICK power \in {FALSE, left.rare \/ left.late = Bound.late} :
            Store([i \in Inode |-> IF power /\ ~disk[i].synced
                                   THEN [disk[i] EXCEPT !.data = [k \in DOMAIN disk[i].data |-> Zero]] ELSE disk[i]])
    BY DEF Crash
  <1> DEFINE d == [i \in Inode |-> IF power /\ ~disk[i].synced
                                   THEN [disk[i] EXCEPT !.data = [k \in DOMAIN disk[i].data |-> Zero]] ELSE disk[i]]
  <1>6. ASSUME NEW i \in Inode
        PROVE  /\ IsFile(d[i]) /\ d[i].mtime = disk[i].mtime /\ d[i].kind = disk[i].kind
               /\ d[i] = disk[i] \/ (~disk[i].synced /\ ~d[i].synced)
    <2> DEFINE lost == [k \in DOMAIN disk[i].data |-> Zero]
               f == [disk[i] EXCEPT !.data = lost]
    <2>1. IsFile(disk[i])
      BY DEF TypeInv, DiskType
    <2> HIDE DEF lost
    <2>2. IsFile(f) /\ f.mtime = disk[i].mtime /\ f.kind = disk[i].kind /\ (f.synced <=> disk[i].synced)
      BY <2>1 DEF IsFile
    <2>3. d[i] = IF power /\ ~disk[i].synced THEN f ELSE disk[i]
      BY DEF lost
    <2> HIDE DEF f, d
    <2>4. QED BY <2>1, <2>2, <2>3
  <1>7. Store(d)
    BY <1>5
  <1> HIDE DEF d
  <1>8. DiskType' /\ \A i \in Inode : disk'[i] = d[i] \/ disk'[i] = NewFile
    BY <1>6, <1>7, StoreTyped
  <1>9. \A i \in {tmp', fin} \cap Inode : disk'[i] = d[i]
    BY <1>1, <1>7, StoreKeeps
  <1>10. \A i \in Inode :
            \/ disk'[i] = disk[i] \/ disk'[i] = NewFile
            \/ /\ ~disk[i].synced /\ ~disk'[i].synced
               /\ disk'[i].mtime = disk[i].mtime /\ disk'[i].kind = disk[i].kind
    BY <1>6, <1>8
  <1>11. \A i \in {tmp', fin} \cap Inode : disk'[i].kind = disk[i].kind /\ disk'[i].mtime = disk[i].mtime
    BY <1>6, <1>9
  <1>12. QED BY <1>1, <1>2, <1>3, <1>4, <1>8, <1>10, <1>11

\* To give a request up, to repeat it, to drop it.
LEMMA GiveUpTyped ==
  ASSUME TransferAssumption, TypeInv, GiveUp
  PROVE  TypeInv'
  <1>1. /\ UNCHANGED <<src, disk, tmp, fin>> /\ late' = TRUE /\ left.late > 0
        /\ left' = [left EXCEPT !.late = left.late - 1] /\ ReqType
        /\ req' = [req EXCEPT ![snd.slot].live = FALSE]
        /\ \/ snd' = [AfterError EXCEPT !.hit = TRUE]
           \/ snd' = [[snd EXCEPT !.pc = "failed", !.slot = None] EXCEPT !.hit = TRUE]
    BY DEF GiveUp, TypeInv
  <1>2. LeftType'
    BY <1>1, LeftIs DEF TypeInv
  <1>3. IsSnd(snd')
    <2> DEFINE x == [snd EXCEPT !.pc = "failed", !.slot = None]
    <2>1. IsSnd(x)
      BY DEF TypeInv, IsSnd
    <2> HIDE DEF x
    <2>2. IsSnd([x EXCEPT !.hit = TRUE])
      BY <2>1 DEF IsSnd
    <2>3. QED BY <1>1, <2>2, AfterErrorIs DEF x
  <1>4. ReqType'
    <2> DEFINE r == [req[snd.slot] EXCEPT !.live = FALSE]
    <2>1. snd.slot \in Slot => IsReq(r)
      BY <1>1 DEF ReqType, IsReq
    <2>2. req' = [req EXCEPT ![snd.slot] = r]
      BY <1>1
    <2> HIDE DEF r
    <2>3. QED BY <1>1, <2>1, <2>2 DEF ReqType
  <1>5. QED BY <1>1, <1>2, <1>3, <1>4 DEF TypeInv, PathType, DiskType

\* The pool repeats a request as a new one; the first goes on with nobody listening.
LEMMA ResendTyped ==
  ASSUME TransferAssumption, TypeInv, Resend
  PROVE  TypeInv'
  <1>1. /\ UNCHANGED <<src, disk, tmp, fin>> /\ late' = TRUE /\ left.late > 0
        /\ left' = [left EXCEPT !.late = left.late - 1] /\ ReqType
        /\ snd' = [snd EXCEPT !.slot = FreeSlot, !.hit = TRUE]
        /\ req' = [req EXCEPT ![snd.slot].live = FALSE,
                              ![FreeSlot] = [req[snd.slot] EXCEPT !.pc = "new", !.fd = None, !.basis = None, !.at = 0]]
    BY DEF Resend, TypeInv
  <1>2. FreeSlot \in Slot /\ req[FreeSlot].pc = "free"
    BY DEF Resend, FreeSlot
  <1>3. LeftType'
    BY <1>1, LeftIs DEF TypeInv
  <1>4. IsSnd(snd') /\ snd.slot \in Slot
    BY <1>1, <1>2 DEF TypeInv, IsSnd, Resend, Busy
  <1>5. ReqType'
    <2> DEFINE dead == [req[snd.slot] EXCEPT !.live = FALSE]
               again == [req[snd.slot] EXCEPT !.pc = "new", !.fd = None, !.basis = None, !.at = 0]
    <2>1. IsReq(dead) /\ IsReq(again)
      BY <1>1, <1>4 DEF ReqType, IsReq
    <2>2. req' = [[req EXCEPT ![snd.slot] = dead] EXCEPT ![FreeSlot] = again]
      BY <1>1
    <2> HIDE DEF dead, again
    <2>3. QED BY <1>1, <1>2, <2>1, <2>2 DEF ReqType
  <1>6. QED BY <1>1, <1>3, <1>4, <1>5 DEF TypeInv, PathType, DiskType

\* Every step of a handler moves one request.
LEMMA ReceiverHandled ==
  ASSUME TransferAssumption, TypeInv, NEW s \in Slot, Receiver(s)
  PROVE  Handled(s)
  <1>1. Quiet(s) => Handled(s)
    BY DEF Quiet, Handled
  <1>2. CASE HandleLink(s)
    BY <1>2, LinkIs
  <1>3. CASE Verify(s)
    BY <1>1, <1>3, VerifyIs
  <1>4. CASE Sync(s)
    BY <1>4, SyncIs
  <1>5. CASE Stamp(s)
    BY <1>5, StampIs
  <1>6. CASE Swap(s)
    BY <1>6, SwapIs
  <1>7. QED
    BY <1>1, <1>2, <1>3, <1>4, <1>5, <1>6, OffsetQuiet, OpenQuiet, ChunkQuiet, StreamQuiet, PutQuiet,
       SumsQuiet, DeltaQuiet, FinishQuiet DEF Receiver

\* Every step of the sender is one.
LEMMA SenderSends ==
  ASSUME TransferAssumption, TypeInv, Sender
  PROVE  Sends
  <1>1. CASE SendOffset \/ SendBody \/ SendSums
    <2>1. \E kind, pc : Asked(kind, <<>>, pc)
      BY <1>1, AskIs DEF SendOffset, SendBody, SendSums
    <2>2. QED BY <2>1 DEF Asked
  <1>2. QED BY <1>1, StartIs, ReadWholeIs, ReadStreamedIs, ReadChunkedIs, ReadDoneIs, SendLinkIs,
               SendFinishIs, HeardIs DEF Sender

\* The types are inductive: every step keeps them.
LEMMA TypeStep ==
  ASSUME TransferAssumption, TypeInv, [Next]_vars
  PROVE  TypeInv'
  <1>1. CASE Push
    BY <1>1, PushIs DEF TypeInv, PathType, DiskType, ReqType
  <1>2. CASE Sender
    BY <1>2, SenderSends DEF Sends, TypeInv, PathType, DiskType, LeftType
  <1>3. ASSUME NEW s \in Slot, Receiver(s) PROVE TypeInv'
    <2>1. Handled(s)
      BY <1>3, ReceiverHandled
    <2>2. QED BY <2>1 DEF Handled, Moved, TypeInv, LeftType
  <1>4. CASE Edit
    BY <1>4, EditIs DEF TypeInv, PathType, DiskType, ReqType
  <1>5. CASE GiveUp \/ Resend
    BY <1>5, GiveUpTyped, ResendTyped
  <1>6. CASE LoseReply
    BY <1>6, LoseReplyIs DEF TypeInv, PathType, DiskType
  <1>7. CASE Crash
    BY <1>7, CrashIs DEF TypeInv, PathType
  <1>8. ASSUME NEW s \in Slot, Drop(s) PROVE TypeInv'
    <2>1. ReqType /\ req' = [req EXCEPT ![s] = Free] /\ UNCHANGED <<src, disk, tmp, fin, snd, late, left>>
      BY <1>8 DEF Drop, TypeInv
    <2>2. ReqType'
      BY <2>1, FreeIs, RequestMoves
    <2>3. QED BY <2>1, <2>2 DEF TypeInv, PathType, DiskType, LeftType
  <1>9. ASSUME NEW s \in Slot, HandlerFails(s) PROVE TypeInv'
    <2>1. IsSnd(snd') /\ LeftType' /\ DiskType' /\ UNCHANGED <<src, tmp, fin, late>> /\ Moved(s)
      BY <1>9, HandlerFailsIs
    <2>2. QED BY <2>1 DEF Moved, TypeInv, PathType
  <1>10. CASE UNCHANGED vars
    BY <1>10 DEF vars, TypeInv, PathType, DiskType, ReqType, LeftType
  <1>11. QED
    BY <1>1, <1>2, <1>3, <1>4, <1>5, <1>6, <1>7, <1>8, <1>9, <1>10 DEF Next, Environment

\* They hold at the start, and there is a file at the final path.
LEMMA TypeInit ==
  ASSUME TransferAssumption, Init
  PROVE  TypeInv /\ fin \in Inode
  <1>1. fin \in Inode
    <2>1. Unused \in Inode
      BY UnusedIsNew
    <2>2. QED BY <2>1 DEF Init
  <1>2. IsReq(Free) /\ IsFile(NewFile) /\ IsFile(FileOf(1)) /\ 1 \in Ver
    BY FreeIs, NewFileIs, FileOfIs DEF TransferAssumption
  <1>3. DiskType /\ ReqType /\ PathType
    BY <1>1, <1>2 DEF Init, DiskType, ReqType, PathType
  <1>4. IsSnd(snd)
    <2>1. 1 \in 1..MaxAttempt
      BY DEF TransferAssumption
    <2>2. QED BY <1>2, <2>1 DEF Init, IsSnd
  <1>5. LeftType
    BY DEF Init, LeftType, TransferAssumption
  <1>6. QED BY <1>1, <1>2, <1>3, <1>4, <1>5 DEF Init, TypeInv

\* Whatever is given up, repeated, lost or interrupted, paths name files, requests
\* belong to versions and no push makes more attempts than the code allows.
THEOREM TypeCorrect ==
  ASSUME TransferAssumption
  PROVE  Spec => []TypeOK
  <1>1. Init => TypeInv
    BY TypeInit
  <1>2. TypeInv /\ [Next]_vars => TypeInv'
    BY TypeStep
  <1>3. TypeInv => TypeOK
    BY DEF TypeInv, TypeOK, PathType, DiskType, ReqType, IsFile, IsReq, IsSnd
  <1>4. QED BY <1>1, <1>2, <1>3, PTL DEF Spec

----------------------------------------------------------------------------
(* One request at a time. *)

\* A step of a handler leaves its request to its sender.
LEMMA OwnedMoves ==
  ASSUME TransferAssumption, TypeInv, Owned, NEW s \in Slot, Moved(s),
         snd'.pc = snd.pc, snd'.slot = snd.slot, snd'.ver = snd.ver, snd'.via = snd.via
  PROVE  Owned'
  <1>1. Free.pc = "free" /\ Free.kind = "none"
    BY DEF Free
  <1>2. ASSUME NEW t \in Slot, req'[t].pc # "free"
        PROVE  \/ snd'.slot = t /\ req'[t].live /\ req'[t].ver = snd'.ver
               \/ snd'.pc = "changing" /\ ~req'[t].live /\ req'[t].kind = "stream"
    BY <1>1, <1>2 DEF Moved, Owned
  <1>3. \A t \in Slot : req'[t].kind = "stream" => req'[t].pc \in {"new", "body", "ok", "err"}
    BY <1>1 DEF Moved, Owned
  <1>4. snd.slot # None => /\ snd.slot \in Slot /\ req'[snd.slot].pc # "free"
                           /\ req'[snd.slot].kind = req[snd.slot].kind
    <2>1. snd.slot # None => /\ snd.slot \in Slot /\ req[snd.slot].pc # "free" /\ snd.pc # "changing"
      BY DEF TypeInv, IsSnd, Owned
    <2>2. snd.slot # None => req[snd.slot].live
      BY <2>1 DEF Owned
    <2>3. QED BY <2>1, <2>2 DEF Moved
  <1>5. QED
    BY <1>2, <1>3, <1>4 DEF Owned

\* Before a request goes out nobody waits, and nothing is in flight.
LEMMA OwnedAsked ==
  ASSUME TransferAssumption, TypeInv, Owned, NEW kind, NEW data, NEW pc \in {"wait", "read"}, Asked(kind, data, pc),
         snd.slot = None, snd.pc # "changing",
         pc = "read" => kind = "stream" /\ snd.via = "stream",
         kind = "sums" => snd.via = "delta", kind = "chunk" => snd.via = "chunk"
  PROVE  Owned'
  <1>1. \A t \in Slot : req[t].pc = "free"
    BY DEF Owned, TransferAssumption
  <1>2. FreeSlot # None
    BY DEF Asked, TransferAssumption
  <1>3. \A t \in Slot : t # FreeSlot => req'[t].pc = "free" /\ req'[t].kind # "stream"
    BY <1>1 DEF Asked, Owned
  <1>4. QED BY <1>1, <1>2, <1>3 DEF Asked, Owned, Sends

\* The sender waits for the answer before it makes another request.
LEMMA OwnedSender ==
  ASSUME TransferAssumption, TypeInv, Owned, Sender
  PROVE  Owned'
  <1>1. Free.pc = "free" /\ Free.kind = "none" /\ IsSnd(snd)
    BY DEF Free, TypeInv
  <1>2. CASE Start
    <2>1. snd.pc = "start" /\ req' = req /\ snd'.slot = snd.slot /\ snd'.ver = snd.ver
      BY <1>2, StartIs DEF Sends
    <2>2. /\ snd'.pc \in {"read", "offset", "sums", "link"}
          /\ snd'.pc = "read" => snd'.via # "stream"
          /\ snd'.pc = "sums" => snd'.via = "delta"
      BY <1>2, StartIs
    <2>3. snd.slot = None
      BY <2>1 DEF Owned
    <2>4. QED BY <2>1, <2>2, <2>3 DEF Owned
  <1>3. CASE SendOffset
    <2>1. snd.pc = "offset" /\ Asked("offset", <<>>, "wait")
      BY <1>3, AskIs DEF SendOffset
    <2>2. snd.slot = None
      BY <2>1 DEF Owned
    <2>3. QED BY <2>1, <2>2, OwnedAsked
  <1>4. CASE SendBody
    <2>1. snd.pc = "open" /\ Asked("stream", <<>>, "read")
      BY <1>4, AskIs DEF SendBody
    <2>2. snd.slot = None /\ snd.via = "stream"
      BY <2>1 DEF Owned
    <2>3. QED BY <2>1, <2>2, OwnedAsked
  <1>5. CASE SendSums
    <2>1. snd.pc = "sums" /\ Asked("sums", <<>>, "wait")
      BY <1>5, AskIs DEF SendSums
    <2>2. snd.slot = None /\ snd.via = "delta"
      BY <2>1 DEF Owned
    <2>3. QED BY <2>1, <2>2, OwnedAsked
  <1>6. CASE ReadWhole
    <2>1. snd.pc = "read" /\ snd.via # "stream" /\ req' = req /\ snd'.ver = snd.ver
      BY <1>6, ReadWholeIs DEF Sends
    <2>2. snd.slot = None
      BY <2>1 DEF Owned
    <2>3. /\ snd'.pc \in {"read", "changing"} /\ snd'.slot = None
          /\ snd'.pc = "read" => snd'.via # "stream"
      BY <1>6, <2>1, <2>2, ReadWholeIs
    <2>4. QED BY <2>1, <2>2, <2>3 DEF Owned
  <1>7. CASE ReadStreamed
    <2>1. snd.pc = "read" /\ snd.via = "stream" /\ snd.slot \in Slot /\ req[snd.slot].kind = "stream"
          /\ req[snd.slot].pc # "free" /\ req[snd.slot].live
      BY <1>1, <1>7, ReadStreamedIs DEF Owned, IsSnd
    <2>2. \A t \in Slot : t # snd.slot => req'[t] = req[t] /\ req[t].pc = "free"
      BY <1>7, <2>1, ReadStreamedIs DEF Owned
    <2>3. CASE snd'.pc = "read"
      <3>1. /\ snd'.slot = snd.slot /\ snd'.via = snd.via /\ snd'.ver = snd.ver
            /\ req'[snd.slot].pc = req[snd.slot].pc /\ req'[snd.slot].kind = "stream"
            /\ req'[snd.slot].ver = req[snd.slot].ver /\ req'[snd.slot].live
        BY <1>7, <2>1, <2>3, ReadStreamedIs DEF Sends
      <3>2. QED BY <2>1, <2>2, <2>3, <3>1 DEF Owned
    <2>4. CASE snd'.pc = "changing"
      <3>1. /\ snd'.slot = None
            /\ \/ req'[snd.slot] = Free
               \/ /\ req'[snd.slot].pc = req[snd.slot].pc /\ req'[snd.slot].kind = "stream"
                  /\ ~req'[snd.slot].live
        BY <1>7, <2>1, <2>4, ReadStreamedIs
      <3>2. QED BY <1>1, <2>1, <2>2, <2>4, <3>1 DEF Owned
    <2>5. QED BY <1>7, <2>3, <2>4, ReadStreamedIs
  <1>8. CASE ReadChunked
    <2>1. snd.pc = "read" /\ snd.via = "chunk" /\ snd.slot = None /\ snd'.ver = snd.ver
      BY <1>8, ReadChunkedIs DEF Owned, Sends
    <2>2. CASE req' = req
      BY <1>8, <2>1, <2>2, ReadChunkedIs DEF Owned, Sends
    <2>3. CASE req' # req
      <3>1. /\ FreeSlot \in Slot /\ \A t \in Slot \ {FreeSlot} : req'[t] = req[t]
            /\ req'[FreeSlot].pc = "new" /\ req'[FreeSlot].kind = "chunk"
            /\ req'[FreeSlot].ver = snd.ver /\ req'[FreeSlot].live
            /\ snd'.pc = "wait" /\ snd'.slot = FreeSlot /\ snd'.via = snd.via
        BY <1>8, <2>3, ReadChunkedIs
      <3>2. \A t \in Slot : req[t].pc = "free"
        BY <2>1 DEF Owned, TransferAssumption
      <3>3. \A t \in Slot : t # FreeSlot => req'[t].pc = "free" /\ req'[t].kind # "stream"
        BY <3>1, <3>2 DEF Owned
      <3>4. FreeSlot # None
        BY <3>1 DEF TransferAssumption
      <3>5. QED BY <2>1, <3>1, <3>3, <3>4 DEF Owned
    <2>4. QED BY <2>2, <2>3
  <1>9. CASE ReadDone
    <2>1. snd.pc = "read" /\ snd'.ver = snd.ver
      BY <1>9, ReadDoneIs DEF Sends
    <2>2. CASE \E kind \in {"put", "batch", "delta"} : Asked(kind, snd.buf, "wait")
               /\ snd.via \in {"put", "batch", "delta"}
      <3>1. snd.slot = None
        BY <2>1, <2>2 DEF Owned
      <3>2. QED BY <2>1, <2>2, <3>1, OwnedAsked
    <2>3. CASE req' = req /\ snd.via \in {"chunk", "put", "batch", "delta"}
               /\ snd'.pc \in {"finish", "changing", "offset"} /\ snd'.slot \in {None, snd.slot}
      <3>1. snd.slot = None
        BY <2>1, <2>3 DEF Owned
      <3>2. QED BY <2>1, <2>3, <3>1 DEF Owned
    <2>4. CASE req' = req /\ snd.via = "stream" /\ snd'.pc = "wait" /\ snd'.slot = snd.slot /\ snd'.via = snd.via
      BY <2>1, <2>4 DEF Owned
    <2>5. QED BY <1>9, <2>2, <2>3, <2>4, ReadDoneIs
  <1>10. CASE SendLink
    <2>1. snd.pc = "link" /\ snd'.ver = snd.ver /\ snd.slot = None
      BY <1>10, SendLinkIs DEF Sends, Owned
    <2>2. CASE Asked("link", Content[snd.ver].data, "wait")
      BY <2>1, <2>2, OwnedAsked
    <2>3. CASE req' = req /\ snd'.pc \in {"start", "failed", "changing"} /\ snd'.slot = None
      BY <2>1, <2>3 DEF Owned
    <2>4. QED BY <1>10, <2>2, <2>3, SendLinkIs
  <1>11. CASE SendFinish
    <2>1. snd.pc = "finish" /\ snd'.ver = snd.ver /\ snd.slot = None
      BY <1>11, SendFinishIs DEF Sends, Owned
    <2>2. CASE Asked("finish", snd.buf, "wait")
      BY <2>1, <2>2, OwnedAsked
    <2>3. CASE req' = req /\ snd'.pc = "changing" /\ snd'.slot = None
      BY <2>1, <2>3 DEF Owned
    <2>4. QED BY <1>11, <2>2, <2>3, SendFinishIs
  <1>12. CASE Heard
    <2>1. snd.pc = "wait" /\ snd.slot \in Slot /\ snd'.slot = None
      BY <1>1, <1>12, HeardIs DEF Owned, IsSnd
    <2>2. \A t \in Slot : req'[t].pc = "free" /\ req'[t].kind # "stream"
      <3>1. req'[snd.slot] = Free /\ \A t \in Slot : t # snd.slot => req'[t] = req[t]
        BY <1>12, <2>1, HeardIs
      <3>2. \A t \in Slot : t # snd.slot => req[t].pc = "free" /\ req[t].kind # "stream"
        BY <2>1 DEF Owned
      <3>3. QED BY <1>1, <3>1, <3>2
    <2>3. /\ snd'.pc \in {"start", "failed", "open", "read", "offset", "finish", "ok"}
          /\ snd'.pc = "open" => snd'.via = "stream"
          /\ snd'.pc = "read" => snd'.via # "stream"
      BY <1>12, <2>1, HeardIs DEF Owned
    <2>4. QED BY <2>1, <2>2, <2>3 DEF Owned
  <1>13. QED
    BY <1>2, <1>3, <1>4, <1>5, <1>6, <1>7, <1>8, <1>9, <1>10, <1>11, <1>12 DEF Sender

\* Whether answers are lost, handlers fail or the process dies, no second request runs.
LEMMA OwnedStep ==
  ASSUME TransferAssumption, Solo, TypeInv, Owned, [Next]_vars
  PROVE  Owned'
  <1>1. Free.pc = "free" /\ Free.kind = "none" /\ IsSnd(snd)
    BY DEF Free, TypeInv
  <1>2. CASE Push
    <2>1. /\ snd.pc \in Over /\ req' = req /\ snd'.pc = "start" /\ snd'.slot = snd.slot
          /\ \A s \in Slot : ~Stale(s)
      BY <1>2, PushIs
    <2>2. snd.slot = None
      BY <2>1 DEF Owned, Over
    <2>3. \A s \in Slot : req[s].pc = "free"
      BY <2>1, <2>2 DEF Owned, Stale, TransferAssumption
    <2>4. QED BY <2>1, <2>2, <2>3 DEF Owned
  <1>3. CASE Sender
    BY <1>3, OwnedSender
  <1>4. ASSUME NEW s \in Slot, Receiver(s) PROVE Owned'
    <2>1. Handled(s)
      BY <1>4, ReceiverHandled
    <2>2. QED BY <2>1, OwnedMoves DEF Handled
  <1>5. CASE Edit
    BY <1>5 DEF Edit, Owned
  <1>6. CASE GiveUp \/ Resend
    BY <1>6 DEF GiveUp, Resend, Solo, TypeInv, LeftType
  <1>7. CASE LoseReply
    <2>1. snd.pc = "wait" /\ snd.slot \in Slot /\ snd'.slot = None /\ snd'.pc \in {"start", "failed"}
      BY <1>1, <1>7, LoseReplyIs DEF Owned, IsSnd
    <2>2. \A t \in Slot : req'[t].pc = "free" /\ req'[t].kind # "stream"
      <3>1. req'[snd.slot] = Free /\ \A t \in Slot : t # snd.slot => req'[t] = req[t]
        BY <1>7, <2>1, LoseReplyIs
      <3>2. \A t \in Slot : t # snd.slot => req[t].pc = "free" /\ req[t].kind # "stream"
        BY <2>1 DEF Owned
      <3>3. QED BY <1>1, <3>1, <3>2
    <2>3. QED BY <2>1, <2>2 DEF Owned
  <1>8. CASE Crash
    <2>1. /\ snd'.pc = snd.pc /\ snd'.slot = snd.slot /\ snd'.ver = snd.ver /\ snd'.via = snd.via
          /\ \A s \in Slot :
                /\ ~req[s].live => req'[s] = Free
                /\ req[s].live => req'[s] = req[s] \/ (/\ req'[s].pc = "err" /\ req'[s].kind = req[s].kind
                                                       /\ req'[s].ver = req[s].ver /\ req'[s].live
                                                       /\ req[s].pc # "free")
      BY <1>8, CrashIs
    <2>2. snd.slot # None => snd.slot \in Slot /\ req[snd.slot].live /\ snd.pc # "changing"
      BY <1>1 DEF Owned, IsSnd
    <2>3. QED BY <1>1, <2>1, <2>2 DEF Owned
  <1>9. ASSUME NEW s \in Slot, Drop(s) PROVE Owned'
    <2>1. ReqType /\ ~req[s].live /\ req' = [req EXCEPT ![s] = Free] /\ UNCHANGED snd /\ req[s].pc = "new"
      BY <1>9 DEF Drop, TypeInv
    <2>2. req'[s] = Free /\ \A t \in Slot \ {s} : req'[t] = req[t]
      BY <2>1, FreeIs, RequestMoves
    <2>3. snd.slot # s
      BY <2>1 DEF Owned, TransferAssumption
    <2>4. QED BY <1>1, <2>1, <2>2, <2>3 DEF Owned, IsSnd
  <1>10. ASSUME NEW s \in Slot, HandlerFails(s) PROVE Owned'
    BY <1>10, HandlerFailsIs, OwnedMoves
  <1>11. CASE UNCHANGED vars
    BY <1>11 DEF vars, Owned
  <1>12. QED
    BY <1>2, <1>3, <1>4, <1>5, <1>6, <1>7, <1>8, <1>9, <1>10, <1>11 DEF Next, Environment

----------------------------------------------------------------------------
(* What the sender has read. *)

\* The content of a version is a sequence.
LEMMA DataIs ==
  ASSUME TransferAssumption, NEW v \in Ver
  PROVE  \E S : Content[v].data \in Seq(S)
  BY DEF TransferAssumption

\* Nothing read is a prefix of everything.
LEMMA PrefixEmpty ==
  ASSUME TransferAssumption, NEW v \in Ver
  PROVE  Prefix(v, <<>>)
  <1>1. PICK S : Content[v].data \in Seq(S)
    BY DataIs
  <1>2. Len(<<>>) = 0 /\ Size(v) \in Nat
    BY <1>1 DEF Size
  <1>3. SubSeq(Content[v].data, 1, 0) = <<>>
    BY <1>1
  <1>4. QED BY <1>2, <1>3 DEF Prefix

\* The next piece of the version makes a longer prefix.
LEMMA PrefixGrows ==
  ASSUME TransferAssumption, NEW v \in Ver, NEW b, Prefix(v, b), Len(b) < Size(v)
  PROVE  Prefix(v, Append(b, Content[v].data[Len(b) + 1]))
  <1> DEFINE d == Content[v].data
             n == Len(b)
  <1>1. PICK S : d \in Seq(S)
    BY DataIs
  <1>2. n \in Nat /\ n < Len(d) /\ Len(d) \in Nat /\ b = SubSeq(d, 1, n)
    BY <1>1 DEF Prefix, Size
  <1> HIDE DEF d, n
  <1>3. b \in Seq(S) /\ Len(b) = n /\ \A i \in 1..n : b[i] = d[i]
    BY <1>1, <1>2, SubSeqProperties DEF n
  <1>4. Append(b, d[n + 1]) = SubSeq(d, 1, n + 1)
    <2>1. d[n + 1] \in S
      BY <1>1, <1>2
    <2>2. SubSeq(d, 1, n + 1) \in Seq(S) /\ Len(SubSeq(d, 1, n + 1)) = n + 1
          /\ \A i \in 1..(n + 1) : SubSeq(d, 1, n + 1)[i] = d[i]
      BY <1>1, <1>2, SubSeqProperties
    <2>3. Append(b, d[n + 1]) \in Seq(S) /\ Len(Append(b, d[n + 1])) = n + 1
          /\ (\A i \in 1..n : Append(b, d[n + 1])[i] = b[i]) /\ Append(b, d[n + 1])[n + 1] = d[n + 1]
      BY <1>3, <2>1, AppendProperties
    <2>4. \A i \in 1..(n + 1) : Append(b, d[n + 1])[i] = SubSeq(d, 1, n + 1)[i]
      BY <1>2, <1>3, <2>2, <2>3
    <2>5. QED BY ONLY <2>2, <2>3, <2>4, SeqEqual
  <1>5. Len(Append(b, d[n + 1])) = n + 1
    BY <1>1, <1>2, <1>4, SubSeqProperties
  <1>6. Size(v) = Len(d)
    BY DEF Size, d
  <1>7. QED BY <1>2, <1>4, <1>5, <1>6 DEF Prefix, d, n

\* A prefix of full length is the version.
LEMMA PrefixWhole ==
  ASSUME TransferAssumption, NEW v \in Ver, NEW b, Prefix(v, b), ~(Len(b) < Size(v))
  PROVE  b = Content[v].data /\ Len(b) = Size(v)
  <1>1. PICK S : Content[v].data \in Seq(S)
    BY DataIs
  <1>2. Len(b) = Size(v) /\ b = SubSeq(Content[v].data, 1, Size(v))
    BY <1>1 DEF Prefix, Size
  <1>3. SubSeq(Content[v].data, 1, Len(Content[v].data)) = Content[v].data
    BY <1>1
  <1>4. QED BY <1>2, <1>3 DEF Size

\* The steps of handlers leave what was read.
LEMMA ReadingMoves ==
  ASSUME TransferAssumption, TypeInv, Owned, Reading, NEW s \in Slot, Moved(s), src' = src,
         snd'.pc = snd.pc, snd'.slot = snd.slot, snd'.ver = snd.ver, snd'.buf = snd.buf
  PROVE  Reading'
  <1>1. Free.kind = "none"
    BY DEF Free
  <1>2. snd.pc = "wait" => snd.slot \in Slot /\ (req'[snd.slot].kind = "stream" => req[snd.slot].kind = "stream")
    BY <1>1 DEF Moved, Owned, TypeInv, IsSnd
  <1>3. QED BY <1>2 DEF Reading, Over

\* The sender goes on reading while the source is the version it sends.
LEMMA ReadingGrows ==
  ASSUME TransferAssumption, TypeInv, Reading, snd.pc = "read", Readable, Sends,
         snd'.buf = Append(snd.buf, Piece)
  PROVE  src' = snd'.ver => Prefix(src', snd'.buf)
  <1>1. src' = src /\ snd'.ver = snd.ver /\ src \in Ver /\ Len(snd.buf) < Size(src)
    BY DEF Sends, Readable, TypeInv
  <1>2. src = snd.ver => Prefix(src, snd.buf)
    BY DEF Reading, Over
  <1>3. src = snd.ver => Prefix(src, Append(snd.buf, Content[src].data[Len(snd.buf) + 1]))
    BY <1>1, <1>2, PrefixGrows
  <1>4. QED BY <1>1, <1>3 DEF Piece

\* The steps of the sender: what is read of a source that stays is a prefix of it.
LEMMA ReadingSender ==
  ASSUME TransferAssumption, TypeInv, Owned, Reading, Sender
  PROVE  Reading'
  <1>1. Sends /\ src' = src /\ snd'.ver = snd.ver /\ src \in Ver
    BY SenderSends DEF Sends, TypeInv
  <1>2. snd'.ver <= src'
    BY <1>1 DEF Reading
  <1>3. CASE Start
    <2>1. snd'.buf = <<>> /\ snd'.pc \in {"read", "offset", "sums", "link"}
      BY <1>3, StartIs
    <2>2. Prefix(src', snd'.buf)
      BY <1>1, <2>1, PrefixEmpty
    <2>3. QED BY <1>2, <2>1, <2>2 DEF Reading
  <1>4. ASSUME NEW kind, NEW data, NEW pc \in {"wait", "read"}, Asked(kind, data, pc),
               snd.pc \notin Over \cup {"start"}, kind # "stream" \/ pc = "read"
        PROVE  Reading'
    <2>1. snd'.pc = pc /\ snd'.buf = snd.buf /\ req'[snd'.slot].kind = kind
      BY <1>4 DEF Asked
    <2>2. src' = snd'.ver => Prefix(src', snd'.buf)
      BY <1>1, <1>4, <2>1 DEF Reading
    <2>3. QED BY <1>2, <1>4, <2>1, <2>2 DEF Reading
  <1>5. CASE SendOffset
    <2>1. snd.pc = "offset" /\ Asked("offset", <<>>, "wait")
      BY <1>5, AskIs DEF SendOffset
    <2>2. QED BY <1>4, <2>1 DEF Over
  <1>6. CASE SendBody
    <2>1. snd.pc = "open" /\ Asked("stream", <<>>, "read")
      BY <1>6, AskIs DEF SendBody
    <2>2. QED BY <1>4, <2>1 DEF Over
  <1>7. CASE SendSums
    <2>1. snd.pc = "sums" /\ Asked("sums", <<>>, "wait")
      BY <1>7, AskIs DEF SendSums
    <2>2. QED BY <1>4, <2>1 DEF Over
  <1>8. CASE ReadWhole
    <2>1. CASE snd'.pc = "changing"
      BY <1>2, <2>1 DEF Reading, Over
    <2>2. CASE snd'.pc # "changing"
      <3>1. snd.pc = "read" /\ Readable /\ snd'.buf = Append(snd.buf, Piece) /\ snd'.pc = "read"
        BY <1>8, <2>2, ReadWholeIs
      <3>2. QED BY <1>1, <1>2, <3>1, ReadingGrows DEF Reading
    <2>3. QED BY <2>1, <2>2
  <1>9. CASE ReadStreamed
    <2>1. CASE snd'.pc = "changing"
      BY <1>2, <2>1 DEF Reading, Over
    <2>2. CASE snd'.pc # "changing"
      <3>1. snd.pc = "read" /\ Readable /\ snd'.buf = Append(snd.buf, Piece) /\ snd'.pc = "read"
        BY <1>9, <2>2, ReadStreamedIs
      <3>2. QED BY <1>1, <1>2, <3>1, ReadingGrows DEF Reading
    <2>3. QED BY <2>1, <2>2
  <1>10. CASE ReadChunked
    <2>1. CASE snd'.pc = "changing"
      BY <1>2, <2>1 DEF Reading, Over
    <2>2. CASE snd'.pc # "changing"
      <3>1. /\ snd.pc = "read" /\ Readable /\ snd'.buf = Append(snd.buf, Piece) /\ snd'.pc \in {"read", "wait"}
            /\ snd'.pc = "wait" => req'[snd'.slot].kind = "chunk"
        BY <1>10, <2>2, ReadChunkedIs
      <3>2. QED BY <1>1, <1>2, <3>1, ReadingGrows DEF Reading
    <2>3. QED BY <2>1, <2>2
  <1>11. CASE ReadDone
    <2>1. snd.pc = "read" /\ ~(Len(snd.buf) < Size(snd.ver))
      BY <1>11, ReadDoneIs DEF More
    <2>2. src = snd.ver => Prefix(src, snd.buf) /\ Len(snd.buf) = Size(src)
      BY <1>1, <2>1, PrefixWhole DEF Reading, Over
    <2>3. CASE snd'.pc = "changing"
      BY <1>2, <2>3 DEF Reading, Over
    <2>4. CASE snd'.buf = snd.buf
      BY <1>1, <1>2, <2>2, <2>4 DEF Reading
    <2>5. CASE snd'.pc = "offset" /\ snd'.buf = <<>>
      BY <1>1, <1>2, <2>5, PrefixEmpty DEF Reading
    <2>6. CASE \E kind \in {"put", "batch", "delta"} : Asked(kind, snd.buf, "wait")
      <3>1. snd'.buf = snd.buf
        BY <2>6 DEF Asked
      <3>2. QED BY <2>4, <3>1
    <2>7. QED BY <1>11, <2>3, <2>4, <2>5, <2>6, ReadDoneIs
  <1>12. CASE SendLink
    <2>1. snd.pc = "link"
      BY <1>12, SendLinkIs
    <2>2. CASE Asked("link", Content[snd.ver].data, "wait")
      BY <1>4, <2>1, <2>2 DEF Over
    <2>3. CASE snd'.pc \in {"start", "failed", "changing"}
      BY <1>2, <2>3 DEF Reading, Over
    <2>4. QED BY <1>12, <2>2, <2>3, SendLinkIs
  <1>13. CASE SendFinish
    <2>1. snd.pc = "finish"
      BY <1>13, SendFinishIs
    <2>2. CASE Asked("finish", snd.buf, "wait")
      BY <1>4, <2>1, <2>2 DEF Over
    <2>3. CASE snd'.pc = "changing"
      BY <1>2, <2>3 DEF Reading, Over
    <2>4. QED BY <1>13, <2>2, <2>3, SendFinishIs
  <1>14. CASE Heard
    <2>1. snd.pc = "wait"
      BY <1>14, HeardIs
    <2>2. CASE snd'.pc \in {"start", "failed", "ok"}
      BY <1>2, <2>2 DEF Reading, Over
    <2>3. CASE snd'.pc \notin {"start", "failed", "ok"}
      <3>1. /\ snd'.buf = snd.buf /\ snd'.pc \in {"open", "read", "offset", "finish"}
            /\ snd'.pc = "finish" => req[snd.slot].kind = "stream"
        BY <1>14, <2>3, HeardIs
      <3>2. QED BY <1>1, <1>2, <2>1, <3>1 DEF Reading, Over
    <2>4. QED BY <2>2, <2>3
  <1>15. QED
    BY <1>3, <1>5, <1>6, <1>7, <1>8, <1>9, <1>10, <1>11, <1>12, <1>13, <1>14 DEF Sender

\* After an edit the source is never again the version sent, and nothing is claimed.
LEMMA ReadingStep ==
  ASSUME TransferAssumption, Solo, TypeInv, Owned, Reading, [Next]_vars
  PROVE  Reading'
  <1>1. Free.kind = "none" /\ IsSnd(snd) /\ src \in Nat
    BY DEF Free, TypeInv, TransferAssumption
  <1>2. CASE Push
    <2>1. src' = src /\ snd'.ver = src /\ snd'.pc = "start"
      BY <1>2, PushIs
    <2>2. QED BY <1>1, <2>1 DEF Reading, Over
  <1>3. CASE Sender
    BY <1>3, ReadingSender
  <1>4. ASSUME NEW s \in Slot, Receiver(s) PROVE Reading'
    <2>1. Handled(s)
      BY <1>4, ReceiverHandled
    <2>2. QED BY <2>1, ReadingMoves DEF Handled
  <1>5. CASE Edit
    <2>1. src' \in Ver /\ src' > src /\ snd' = snd
      BY <1>5, EditIs
    <2>2. src' \in Nat /\ snd.ver \in Nat /\ snd.ver <= src
      BY <1>1, <2>1 DEF TransferAssumption, Reading, IsSnd
    <2>3. snd'.ver <= src' /\ src' # snd'.ver
      BY <1>1, <2>1, <2>2
    <2>4. QED BY <2>3 DEF Reading
  <1>6. CASE GiveUp \/ Resend
    BY <1>6 DEF GiveUp, Resend, Solo, TypeInv, LeftType
  <1>7. CASE LoseReply
    <2>1. src' = src /\ snd'.ver = snd.ver /\ snd'.pc \in {"start", "failed"}
      BY <1>7, LoseReplyIs
    <2>2. QED BY <2>1 DEF Reading, Over
  <1>8. CASE Crash
    <2>1. /\ src' = src /\ snd'.pc = snd.pc /\ snd'.slot = snd.slot /\ snd'.ver = snd.ver /\ snd'.buf = snd.buf
          /\ \A s \in Slot : req'[s].kind = "stream" => req[s].kind = "stream"
      BY <1>1, <1>8, CrashIs
    <2>2. snd.pc = "wait" => snd.slot \in Slot
      BY <1>1 DEF Owned, IsSnd
    <2>3. QED BY <2>1, <2>2 DEF Reading, Over
  <1>9. ASSUME NEW s \in Slot, Drop(s) PROVE Reading'
    <2>1. ReqType /\ ~req[s].live /\ req' = [req EXCEPT ![s] = Free] /\ UNCHANGED <<src, snd>> /\ req[s].pc = "new"
      BY <1>9 DEF Drop, TypeInv
    <2>2. req'[s] = Free /\ \A t \in Slot \ {s} : req'[t] = req[t]
      BY <2>1, FreeIs, RequestMoves
    <2>3. snd.pc = "wait" => snd.slot \in Slot
      BY <1>1 DEF Owned, IsSnd
    <2>4. QED BY <1>1, <2>1, <2>2, <2>3 DEF Reading, Over
  <1>10. ASSUME NEW s \in Slot, HandlerFails(s) PROVE Reading'
    BY <1>10, HandlerFailsIs, ReadingMoves
  <1>11. CASE UNCHANGED vars
    BY <1>11 DEF vars, Reading
  <1>12. QED
    BY <1>2, <1>3, <1>4, <1>5, <1>6, <1>7, <1>8, <1>9, <1>10, <1>11 DEF Next, Environment

----------------------------------------------------------------------------
(* What requests carry and what the files are. *)

LEMMA CarriedMoves ==
  ASSUME Carried, NEW s \in Slot, Moved(s)
  PROVE  Carried'
  <1>1. Free.pc = "free"
    BY DEF Free
  <1>2. QED BY <1>1 DEF Moved, Carried

\* A new request for the whole content is made with it.
LEMMA CarriedAsked ==
  ASSUME Carried, NEW kind, NEW data, NEW pc, Asked(kind, data, pc),
         kind \in Whole => data = Content[snd.ver].data
  PROVE  Carried'
  BY DEF Asked, Carried

\* Requests with the whole content are made after the comparison with the source.
LEMMA CarriedSender ==
  ASSUME TransferAssumption, TypeInv, Owned, Reading, Carried, Sender
  PROVE  Carried'
  <1>1. Free.pc = "free" /\ IsSnd(snd) /\ src \in Ver
    BY DEF Free, TypeInv
  <1>2. ASSUME req' = req PROVE Carried'
    BY <1>2 DEF Carried
  <1>3. ASSUME NEW t, \A u \in Slot : u # t => req'[u] = req[u], t \in Slot => req'[t] = Free
        PROVE  Carried'
    BY <1>1, <1>3 DEF Carried
  <1>4. CASE Start
    BY <1>2, <1>4, StartIs
  <1>5. CASE SendOffset
    <2>1. Asked("offset", <<>>, "wait")
      BY <1>5, AskIs DEF SendOffset
    <2>2. QED BY <2>1, CarriedAsked DEF Whole
  <1>6. CASE SendBody
    <2>1. Asked("stream", <<>>, "read")
      BY <1>6, AskIs DEF SendBody
    <2>2. QED BY <2>1, CarriedAsked DEF Whole
  <1>7. CASE SendSums
    <2>1. Asked("sums", <<>>, "wait")
      BY <1>7, AskIs DEF SendSums
    <2>2. QED BY <2>1, CarriedAsked DEF Whole
  <1>8. CASE ReadWhole
    BY <1>2, <1>8, ReadWholeIs
  <1>9. CASE ReadStreamed
    <2>1. snd.slot \in Slot /\ req[snd.slot].kind = "stream" /\ req[snd.slot].pc \in {"new", "body", "ok", "err"}
      BY <1>1, <1>9, ReadStreamedIs DEF Owned, IsSnd
    <2>2. \A t \in Slot : t # snd.slot => req'[t] = req[t]
      BY <1>9, ReadStreamedIs
    <2>3. req'[snd.slot] = Free \/ (req'[snd.slot].kind = "stream" /\ req'[snd.slot].pc = req[snd.slot].pc)
      BY <1>9, <2>1, ReadStreamedIs
    <2>4. QED BY <1>1, <2>1, <2>2, <2>3 DEF Carried, Whole
  <1>10. CASE ReadChunked
    <2>1. CASE req' = req
      BY <1>2, <2>1
    <2>2. CASE req' # req
      <3>1. /\ FreeSlot \in Slot /\ \A t \in Slot \ {FreeSlot} : req'[t] = req[t]
            /\ req'[FreeSlot].pc = "new" /\ req'[FreeSlot].kind = "chunk"
        BY <1>10, <2>2, ReadChunkedIs
      <3>2. QED BY <3>1 DEF Carried, Whole
    <2>3. QED BY <2>1, <2>2
  <1>11. CASE ReadDone
    <2>1. snd.pc = "read" /\ ~(Len(snd.buf) < Size(snd.ver))
      BY <1>11, ReadDoneIs DEF More
    <2>2. CASE Stable /\ \E kind \in {"put", "batch", "delta"} : Asked(kind, snd.buf, "wait")
      <3>1. snd.buf = Content[snd.ver].data
        BY <1>1, <2>1, <2>2, PrefixWhole DEF Reading, Over, Stable
      <3>2. QED BY <2>2, <3>1, CarriedAsked
    <2>3. CASE req' = req
      BY <1>2, <2>3
    <2>4. QED BY <1>11, <2>2, <2>3, ReadDoneIs
  <1>12. CASE SendLink
    <2>1. CASE Asked("link", Content[snd.ver].data, "wait")
      BY <2>1, CarriedAsked
    <2>2. QED BY <1>2, <1>12, <2>1, SendLinkIs
  <1>13. CASE SendFinish
    <2>1. CASE Stable /\ Asked("finish", snd.buf, "wait")
      <3>1. snd.pc = "finish"
        BY <1>13, SendFinishIs
      <3>2. Prefix(src, snd.buf) /\ Len(snd.buf) = Size(src)
        BY <2>1, <3>1 DEF Reading, Over, Stable
      <3>3. ~(Len(snd.buf) < Size(src))
        <4>1. PICK S : Content[src].data \in Seq(S)
          BY <1>1, DataIs
        <4>2. QED BY <3>2, <4>1 DEF Size
      <3>4. snd.buf = Content[snd.ver].data
        BY <1>1, <2>1, <3>2, <3>3, PrefixWhole DEF Stable
      <3>5. QED BY <2>1, <3>4, CarriedAsked
    <2>2. QED BY <1>2, <1>13, <2>1, SendFinishIs
  <1>14. CASE Heard
    BY <1>3, <1>14, HeardIs
  <1>15. QED
    BY <1>4, <1>5, <1>6, <1>7, <1>8, <1>9, <1>10, <1>11, <1>12, <1>13, <1>14 DEF Sender

\* No handler changes the content of a request for the whole.
LEMMA CarriedStep ==
  ASSUME TransferAssumption, Solo, TypeInv, Owned, Reading, Carried, [Next]_vars
  PROVE  Carried'
  <1>1. Free.pc = "free"
    BY DEF Free
  <1>2. CASE req' = req
    BY <1>2 DEF Carried
  <1>3. CASE Sender
    BY <1>3, CarriedSender
  <1>4. ASSUME NEW s \in Slot, Receiver(s) PROVE Carried'
    <2>1. Moved(s)
      BY <1>4, ReceiverHandled DEF Handled
    <2>2. QED BY <2>1, CarriedMoves
  <1>5. CASE Push \/ Edit \/ UNCHANGED vars
    BY <1>2, <1>5, PushIs, EditIs DEF vars
  <1>6. CASE GiveUp \/ Resend
    BY <1>6 DEF GiveUp, Resend, Solo, TypeInv, LeftType
  <1>7. CASE LoseReply
    <2>1. (\A t \in Slot : t # snd.slot => req'[t] = req[t]) /\ (snd.slot \in Slot => req'[snd.slot] = Free)
      BY <1>7, LoseReplyIs
    <2>2. QED BY <1>1, <2>1 DEF Carried
  <1>8. CASE Crash
    <2>1. \A s \in Slot :
             \/ req'[s] = Free \/ req'[s] = req[s]
             \/ /\ req'[s].pc = "err" /\ req'[s].kind = req[s].kind /\ req'[s].ver = req[s].ver
                /\ req'[s].data = req[s].data /\ req[s].pc # "free"
      BY <1>8, CrashIs
    <2>2. QED BY <1>1, <2>1 DEF Carried
  <1>9. ASSUME NEW s \in Slot, Drop(s) PROVE Carried'
    <2>1. ReqType /\ req' = [req EXCEPT ![s] = Free]
      BY <1>9 DEF Drop, TypeInv
    <2>2. req'[s] = Free /\ \A t \in Slot \ {s} : req'[t] = req[t]
      BY <2>1, FreeIs, RequestMoves
    <2>3. QED BY <1>1, <2>2 DEF Carried
  <1>10. ASSUME NEW s \in Slot, HandlerFails(s) PROVE Carried'
    <2>1. Moved(s)
      BY <1>10, HandlerFailsIs
    <2>2. QED BY <2>1, CarriedMoves
  <1>11. QED
    BY <1>3, <1>4, <1>5, <1>6, <1>7, <1>8, <1>9, <1>10 DEF Next, Environment

Files == Assembled /\ Stamped /\ Apart

\* From the check on a handler is alone.
LEMMA OnlyOne ==
  ASSUME TransferAssumption, TypeInv, Owned, NEW s \in Slot, NEW t \in Slot, req[s].pc # "free",
         req[t].pc \in {"verify", "sync", "stamp", "swap"}
  PROVE  s = t /\ req[s].live /\ snd.slot = s /\ req[s].ver = snd.ver /\ snd.pc \in {"wait", "read"}
  <1>1. req[t].kind # "stream" /\ req[t].pc # "free"
    BY DEF Owned
  <1>2. snd.slot = t /\ t # None /\ req[t].live /\ req[t].ver = snd.ver
    BY <1>1 DEF Owned, TransferAssumption
  <1>3. snd.pc \in {"wait", "read"}
    BY <1>2 DEF Owned
  <1>4. QED BY <1>2, <1>3 DEF Owned

\* So no other handler is past the check.
LEMMA OthersWait ==
  ASSUME TransferAssumption, TypeInv, Owned, NEW s \in Slot, req[s].pc # "free"
  PROVE  \A t \in Slot \ {s} : req[t].pc \notin {"verify", "sync", "stamp", "swap"}
  <1>1. SUFFICES ASSUME NEW t \in Slot \ {s}, req[t].pc \in {"verify", "sync", "stamp", "swap"} PROVE FALSE
    OBVIOUS
  <1>2. s = t
    BY <1>1, OnlyOne
  <1>3. QED BY <1>1, <1>2

\* Before the check a handler leaves the file at the final path and the stamped ones.
LEMMA FilesQuiet ==
  ASSUME TransferAssumption, TypeInv, Owned, Files, NEW s \in Slot, Quiet(s)
  PROVE  Files'
  <1>1. req[s].pc # "free" /\ (\A t \in Slot \ {s} : req'[t] = req[t]) /\ fin' = fin
    BY DEF Quiet, Moved
  <1>2. \A t \in Slot : req'[t].pc \notin {"sync", "stamp", "swap"}
    <2>1. req'[s].pc \notin {"sync", "stamp", "swap"}
      BY DEF Quiet
    <2>2. QED BY <1>1, <2>1, OthersWait
  <1>3. Assembled'
    BY <1>2 DEF Assembled
  <1>4. Stamped'
    BY DEF Files, Stamped, Quiet
  <1>5. /\ tmp' \in Inode => tmp' # fin
        /\ fin \in Inode => disk'[fin] = disk[fin]
        /\ req'[s].pc = "body" => req'[s].fd \in Inode /\ req'[s].fd # fin
        /\ tmp' \in Inode \cup {None} /\ fin \in Inode \cup {None}
    BY DEF Files, Quiet, PathType
  <1>6. Apart'
    BY <1>1, <1>5 DEF Files, Apart
  <1>7. QED BY <1>3, <1>4, <1>6 DEF Files

\* A handler past the check, and with it every step that leaves one there.
LEMMA FilesTail ==
  ASSUME TransferAssumption, TypeInv, Owned, Carried, Files, NEW s \in Slot,
         HandleLink(s) \/ Verify(s) \/ Sync(s) \/ Stamp(s) \/ Swap(s)
  PROVE  Files'
  <1>1. NewFile.mtime = 0 /\ 0 \notin Ver /\ IsReq(req[s]) /\ None \notin Inode
    BY NewFileIs DEF TransferAssumption, TypeInv, ReqType
  <1>2. CASE HandleLink(s)
    <2> DEFINE f == FileOf(req[s].ver)
    <2>1. /\ tmp' \in Inode /\ tmp' # fin /\ fin' = fin /\ disk'[tmp'] = f
          /\ \A i \in Inode : disk'[i] = disk[i] \/ disk'[i] = NewFile \/ disk'[i] = f
          /\ fin \in Inode => disk'[fin] = disk[fin]
          /\ req'[s].pc = "swap" /\ req'[s].ver = req[s].ver
          /\ \A t \in Slot \ {s} : req'[t] = req[t]
      BY <1>2, LinkIs DEF Handled, Moved
    <2>2. f.synced /\ f.mtime = req[s].ver /\ f.data = Content[req[s].ver].data
      BY <1>1, FileOfIs DEF IsReq
    <2>3. req[s].pc = "new"
      BY <1>2 DEF HandleLink
    <2> HIDE DEF f
    <2>4. \A t \in Slot \ {s} : req'[t].pc \notin {"sync", "stamp", "swap"}
      <3>1. req[s].pc # "free"
        BY <2>3
      <3>2. \A t \in Slot \ {s} : req[t].pc \notin {"verify", "sync", "stamp", "swap"}
        BY <3>1, OthersWait
      <3>3. QED BY <2>1, <3>2
    <2>5. Assembled'
      BY <1>1, <2>1, <2>2, <2>4 DEF Assembled
    <2>6. Stamped'
      BY <1>1, <2>1, <2>2 DEF Files, Stamped
    <2>7. Apart'
      BY <1>1, <2>1 DEF Files, Apart, TypeInv, PathType
    <2>8. QED BY <2>5, <2>6, <2>7 DEF Files
  <1>3. CASE Verify(s)
    <2>1. CASE Quiet(s)
      BY <2>1, FilesQuiet
    <2>2. CASE ~Quiet(s)
      <3>1. /\ UNCHANGED <<tmp, fin>> /\ tmp \in Inode
            /\ req[s].pc = "verify" /\ req'[s].pc = "sync" /\ req'[s].ver = req[s].ver
            /\ disk[tmp].data = req[s].data
            /\ disk'[tmp] = disk[tmp] /\ (fin \in Inode => disk'[fin] = disk[fin])
            /\ \A i \in Inode : disk'[i] = disk[i] \/ disk'[i] = NewFile
            /\ \A t \in Slot \ {s} : req'[t] = req[t]
        BY <1>3, <2>2, VerifyIs DEF Handled, Moved
      <3>2. \A t \in Slot \ {s} : req'[t].pc \notin {"sync", "stamp", "swap"}
        <4>1. req[s].pc # "free"
          BY <3>1
        <4>2. \A t \in Slot \ {s} : req[t].pc \notin {"verify", "sync", "stamp", "swap"}
          BY <4>1, OthersWait
        <4>3. QED BY <3>1, <4>2
      <3>3. req[s].data = Content[req[s].ver].data
        BY <3>1 DEF Carried
      <3>4. Assembled'
        BY <1>1, <3>1, <3>2, <3>3 DEF Assembled
      <3>5. Stamped'
        BY <1>1, <3>1 DEF Files, Stamped
      <3>6. Apart'
        BY <1>1, <3>1 DEF Files, Apart, TypeInv, PathType
      <3>7. QED BY <3>4, <3>5, <3>6 DEF Files
    <2>3. QED BY <2>1, <2>2
  <1>4. CASE Sync(s) \/ Stamp(s) \/ Swap(s)
    <2>1. req[s].pc \in {"sync", "stamp", "swap"}
      BY <1>4, SyncIs, StampIs, SwapIs
    <2>2. tmp \in Inode /\ tmp # None /\ disk[tmp].data = Content[req[s].ver].data /\ tmp # fin
      BY <2>1 DEF Files, Assembled, Apart, TypeInv, PathType
    <2>3. \A t \in Slot \ {s} : req[t].pc = "free"
      BY <2>1, OnlyOne
    <2>4. \A t \in Slot \ {s} : req'[t] = req[t]
      BY <1>4, SyncIs, StampIs, SwapIs DEF Handled, Moved
    <2>5. req[s].ver \in Ver
      BY <1>1 DEF IsReq
    <2>6. CASE Sync(s)
      <3>1. /\ UNCHANGED <<tmp, fin>> /\ \A i \in Inode \ {tmp} : disk'[i] = disk[i]
            /\ req'[s].pc = "stamp" /\ req'[s].ver = req[s].ver
            /\ disk'[tmp].synced /\ disk'[tmp].data = disk[tmp].data /\ disk'[tmp].mtime = disk[tmp].mtime
        BY <2>2, <2>6, SyncIs
      <3>2. Assembled'
        BY <2>2, <2>3, <2>4, <3>1 DEF Assembled
      <3>3. Stamped'
        BY <2>2, <3>1 DEF Files, Stamped
      <3>4. Apart'
        BY <2>2, <2>3, <2>4, <3>1 DEF Files, Apart, TypeInv, PathType
      <3>5. QED BY <3>2, <3>3, <3>4 DEF Files
    <2>7. CASE Stamp(s)
      <3>1. /\ UNCHANGED <<tmp, fin>> /\ (\A i \in Inode \ {tmp} : disk'[i] = disk[i]) /\ req[s].pc = "stamp"
            /\ req'[s].pc = "swap" /\ req'[s].ver = req[s].ver
            /\ disk'[tmp].mtime = req[s].ver /\ (disk'[tmp].synced <=> disk[tmp].synced)
            /\ disk'[tmp].data = disk[tmp].data
        BY <2>2, <2>7, StampIs
      <3>2. disk[tmp].synced
        BY <3>1 DEF Files, Assembled
      <3>3. Assembled'
        BY <2>2, <2>3, <2>4, <3>1, <3>2 DEF Assembled
      <3>4. Stamped'
        BY <2>2, <3>1, <3>2 DEF Files, Stamped
      <3>5. Apart'
        BY <2>2, <2>3, <2>4, <3>1 DEF Files, Apart, TypeInv, PathType
      <3>6. QED BY <3>3, <3>4, <3>5 DEF Files
    <2>8. CASE Swap(s)
      <3>1. /\ req[s].pc = "swap" /\ disk'[tmp] = disk[tmp]
            /\ \A i \in Inode : disk'[i] = disk[i] \/ disk'[i] = NewFile
            /\ \/ fin' = None /\ UNCHANGED <<tmp, req>>
               \/ fin' = tmp /\ tmp' = None /\ req'[s].pc \in {"free", "ok"}
        BY <2>2, <2>8, SwapIs
      <3>2. disk[tmp].synced /\ disk[tmp].mtime = req[s].ver
        BY <3>1 DEF Files, Assembled
      <3>3. Assembled'
        BY <2>2, <2>3, <2>4, <3>1 DEF Files, Assembled
      <3>4. Stamped'
        BY <1>1, <3>1 DEF Files, Stamped
      <3>5. Apart'
        BY <1>1, <2>2, <2>3, <2>4, <2>5, <3>1, <3>2 DEF Files, Apart
      <3>6. QED BY <3>3, <3>4, <3>5 DEF Files
    <2>9. QED BY <1>4, <2>6, <2>7, <2>8
  <1>5. QED BY <1>2, <1>3, <1>4

\* The sender makes requests and takes answers; what it does to a stream does not
\* move its handler.
LEMMA SenderLeaves ==
  ASSUME TransferAssumption, TypeInv, Owned, Sender
  PROVE  \A t \in Slot : \/ req'[t] = req[t] \/ req'[t].pc \in {"free", "new"}
                         \/ /\ req[t].kind = "stream" /\ req'[t].kind = "stream"
                            /\ req'[t].pc = req[t].pc /\ req'[t].fd = req[t].fd
  <1>0. Free.pc = "free" /\ IsSnd(snd)
    BY DEF Free, TypeInv
  <1>1. CASE req' = req
    BY <1>1
  <1>2. ASSUME NEW kind, NEW data, NEW pc, Asked(kind, data, pc)
        PROVE  \A t \in Slot : req'[t] = req[t] \/ req'[t].pc \in {"free", "new"}
    BY <1>2 DEF Asked
  <1>3. CASE SendOffset \/ SendBody \/ SendSums
    <2>1. \E kind, pc : Asked(kind, <<>>, pc)
      BY <1>3, AskIs DEF SendOffset, SendBody, SendSums
    <2>2. QED BY <1>2, <2>1
  <1>4. CASE ReadStreamed
    <2>1. snd.slot \in Slot /\ req[snd.slot].kind = "stream"
      BY <1>0, <1>4, ReadStreamedIs DEF Owned, IsSnd
    <2>2. \A t \in Slot : t # snd.slot => req'[t] = req[t]
      BY <1>4, ReadStreamedIs
    <2>3. req'[snd.slot] = Free \/ (/\ req'[snd.slot].kind = "stream" /\ req'[snd.slot].pc = req[snd.slot].pc
                                     /\ req'[snd.slot].fd = req[snd.slot].fd)
      BY <1>4, <2>1, ReadStreamedIs
    <2>4. QED BY <1>0, <2>1, <2>2, <2>3
  <1>5. CASE ReadChunked
    <2>1. req' = req \/ (/\ req'[FreeSlot].pc = "new" /\ \A t \in Slot \ {FreeSlot} : req'[t] = req[t])
      BY <1>5, ReadChunkedIs
    <2>2. QED BY <2>1
  <1>6. CASE ReadDone
    <2>1. req' = req \/ \E kind \in {"put", "batch", "delta"} : Asked(kind, snd.buf, "wait")
      BY <1>6, ReadDoneIs
    <2>2. QED BY <1>2, <2>1
  <1>7. CASE SendLink
    <2>1. req' = req \/ Asked("link", Content[snd.ver].data, "wait")
      BY <1>7, SendLinkIs
    <2>2. QED BY <1>2, <2>1
  <1>8. CASE SendFinish
    <2>1. req' = req \/ Asked("finish", snd.buf, "wait")
      BY <1>8, SendFinishIs
    <2>2. QED BY <1>2, <2>1
  <1>9. CASE Heard
    <2>1. (\A t \in Slot : t # snd.slot => req'[t] = req[t]) /\ (snd.slot \in Slot => req'[snd.slot] = Free)
      BY <1>9, HeardIs
    <2>2. QED BY <1>0, <2>1
  <1>10. QED BY <1>1, <1>3, <1>4, <1>5, <1>6, <1>7, <1>8, <1>9, StartIs, ReadWholeIs DEF Sender

\* The sender leaves the files alone and no handler where it writes.
LEMMA FilesSender ==
  ASSUME TransferAssumption, TypeInv, Owned, Files, Sender
  PROVE  Files'
  <1>1. UNCHANGED <<disk, tmp, fin>> /\ Free.pc = "free" /\ IsSnd(snd)
    BY SenderSends DEF Sends, Free, TypeInv
  <1>2. \A t \in Slot : \/ req'[t] = req[t] \/ req'[t].pc \in {"free", "new"}
                        \/ /\ req[t].kind = "stream" /\ req'[t].pc = req[t].pc /\ req'[t].fd = req[t].fd
    BY SenderLeaves
  <1>3. Assembled'
    <2>1. \A t \in Slot : req'[t].pc \in {"sync", "stamp", "swap"} => req'[t] = req[t]
      BY <1>2 DEF Owned
    <2>2. QED BY <1>1, <2>1 DEF Files, Assembled
  <1>4. Stamped'
    BY <1>1 DEF Files, Stamped
  <1>5. Apart'
    <2>1. \A t \in Slot : req'[t].pc = "body" => req[t].pc = "body" /\ req'[t].fd = req[t].fd
      BY <1>2
    <2>2. QED BY <1>1, <2>1 DEF Files, Apart
  <1>6. QED BY <1>3, <1>4, <1>5 DEF Files

\* What the three claims about files need of each step.
LEMMA FilesStep ==
  ASSUME TransferAssumption, Solo, TypeInv, Owned, Carried, Files, [Next]_vars
  PROVE  Files'
  <1>1. Free.pc = "free" /\ NewFile.mtime = 0 /\ None \notin Inode
    BY NewFileIs DEF Free, TransferAssumption
  <1>2. ASSUME UNCHANGED <<disk, tmp, fin>>, \A s \in Slot : req'[s] = req[s] \/ req'[s] = Free
        PROVE  Files'
    BY <1>1, <1>2 DEF Files, Assembled, Stamped, Apart
  <1>3. CASE Sender
    BY <1>3, FilesSender
  <1>4. ASSUME NEW s \in Slot, Receiver(s) PROVE Files'
    <2>1. CASE HandleLink(s) \/ Verify(s) \/ Sync(s) \/ Stamp(s) \/ Swap(s)
      BY <2>1, FilesTail
    <2>2. CASE ~(HandleLink(s) \/ Verify(s) \/ Sync(s) \/ Stamp(s) \/ Swap(s))
      <3>1. Quiet(s)
        BY <1>4, <2>2, OffsetQuiet, OpenQuiet, ChunkQuiet, StreamQuiet, PutQuiet,
           SumsQuiet, DeltaQuiet, FinishQuiet DEF Receiver
      <3>2. QED BY <3>1, FilesQuiet
    <2>3. QED BY <2>1, <2>2
  <1>5. CASE Push \/ Edit \/ UNCHANGED vars
    <2>1. UNCHANGED <<disk, tmp, fin>> /\ req' = req
      BY <1>5, PushIs, EditIs DEF vars
    <2>2. QED BY <1>2, <2>1
  <1>6. CASE GiveUp \/ Resend
    BY <1>6 DEF GiveUp, Resend, Solo, TypeInv, LeftType
  <1>7. CASE LoseReply
    <2>1. /\ UNCHANGED <<disk, tmp, fin>>
          /\ (\A t \in Slot : t # snd.slot => req'[t] = req[t]) /\ (snd.slot \in Slot => req'[snd.slot] = Free)
      BY <1>7, LoseReplyIs
    <2>2. QED BY <1>2, <2>1
  <1>8. CASE Crash
    <2>1. \A s \in Slot : req'[s].pc \in {"free", "ok", "err"}
      BY <1>1, <1>8, CrashIs
    <2>2. /\ fin' = fin /\ tmp' \in {tmp, None}
          /\ \A i \in Inode :
                \/ disk'[i] = disk[i] \/ disk'[i] = NewFile
                \/ ~disk[i].synced /\ disk'[i].mtime = disk[i].mtime
          /\ fin \in Inode => disk'[fin].mtime = disk[fin].mtime
      BY <1>8, CrashIs
    <2>3. Assembled'
      BY <2>1 DEF Assembled
    <2>4. Stamped'
      BY <1>1, <2>2 DEF Files, Stamped
    <2>5. Apart'
      BY <1>1, <2>1, <2>2 DEF Files, Apart, TypeInv, PathType
    <2>6. QED BY <2>3, <2>4, <2>5 DEF Files
  <1>9. ASSUME NEW s \in Slot, Drop(s) PROVE Files'
    <2>1. ReqType /\ req' = [req EXCEPT ![s] = Free] /\ UNCHANGED <<disk, tmp, fin>>
      BY <1>9 DEF Drop, TypeInv
    <2>2. req'[s] = Free /\ \A t \in Slot \ {s} : req'[t] = req[t]
      BY <2>1, FreeIs, RequestMoves
    <2>3. QED BY <1>2, <2>1, <2>2
  <1>10. ASSUME NEW s \in Slot, HandlerFails(s) PROVE Files'
    <2>1. /\ UNCHANGED <<tmp, fin>> /\ req'[s].pc \in {"free", "err"} /\ \A t \in Slot \ {s} : req'[t] = req[t]
          /\ \A i \in Inode : disk'[i] = disk[i] \/ disk'[i] = NewFile
          /\ tmp \in Inode => disk'[tmp] = disk[tmp]
          /\ fin \in Inode => disk'[fin] = disk[fin]
      BY <1>10, HandlerFailsIs DEF Moved
    <2>2. Assembled'
      BY <1>1, <2>1 DEF Files, Assembled, TypeInv, PathType
    <2>3. Stamped'
      BY <1>1, <2>1 DEF Files, Stamped
    <2>4. Apart'
      BY <1>1, <2>1 DEF Files, Apart, TypeInv, PathType
    <2>5. QED BY <2>2, <2>3, <2>4 DEF Files
  <1>11. QED
    BY <1>3, <1>4, <1>5, <1>6, <1>7, <1>8, <1>9, <1>10 DEF Next, Environment

\* The invariant holds at the start.
LEMMA SoloInit ==
  ASSUME TransferAssumption, Init
  PROVE  SoloInv
  <1>1. TypeInv /\ fin \in Inode
    BY TypeInit
  <1>2. Free.pc = "free" /\ Free.kind = "none" /\ NewFile.mtime = 0 /\ 1 \in Ver /\ src = 1 /\ tmp = None
        /\ 1 # 0 /\ None \notin Inode
    BY NewFileIs DEF Free, TransferAssumption, Init
  <1>3. FileOf(1).mtime = 1 /\ FileOf(1).synced /\ FileOf(1).data = Content[1].data
    BY <1>2, FileOfIs
  <1>4. disk[fin] = FileOf(1) /\ \A i \in Inode : i # fin => disk[i] = NewFile
    BY <1>1 DEF Init
  <1>5. \A s \in Slot : req[s] = Free
    BY DEF Init
  <1>6. snd.pc = "idle" /\ snd.slot = None /\ snd.ver = 1
    BY DEF Init
  <1>7. Owned
    BY <1>2, <1>5, <1>6 DEF Owned
  <1>8. Reading
    BY <1>2, <1>6 DEF Reading, Over
  <1>9. Carried /\ Assembled
    BY <1>2, <1>5 DEF Carried, Assembled
  <1>10. Stamped
    BY <1>2, <1>3, <1>4 DEF Stamped
  <1>11. Apart
    BY <1>2, <1>3, <1>4, <1>5 DEF Apart
  <1>12. QED BY <1>1, <1>7, <1>8, <1>9, <1>10, <1>11 DEF SoloInv

\* Each part of the invariant is kept with the help of the parts before it.
LEMMA SoloStep ==
  ASSUME TransferAssumption, Solo, SoloInv, [Next]_vars
  PROVE  SoloInv'
  <1>1. TypeInv' /\ Owned'
    BY TypeStep, OwnedStep DEF SoloInv
  <1>2. Reading' /\ Carried'
    BY ReadingStep, CarriedStep DEF SoloInv
  <1>3. Files'
    BY FilesStep DEF SoloInv, Files
  <1>4. QED BY <1>1, <1>2, <1>3 DEF SoloInv, Files

\* Where no request outlives its sender a file that compares equal to what the source
\* has is what the source has, whatever is lost, interrupted or changed on the way.
THEOREM NoCorruption ==
  ASSUME TransferAssumption, Solo
  PROVE  Spec => []NoSilentCorruption
  <1>1. Init => SoloInv
    BY SoloInit
  <1>2. SoloInv /\ [Next]_vars => SoloInv'
    BY SoloStep
  <1>3. SoloInv => NoSilentCorruption
    <2> SUFFICES ASSUME SoloInv PROVE Seen # None
      BY DEF NoSilentCorruption
    <2>1. CASE fin = None
      BY <2>1 DEF Seen, TransferAssumption
    <2>2. CASE fin # None
      <3> DEFINE f == disk[fin]
                 equal == {v \in Ver : f.kind = Content[v].kind /\ Len(f.data) = Size(v) /\ f.mtime = v}
      <3>1. fin \in Inode
        BY <2>2 DEF SoloInv, TypeInv, PathType
      <3>2. Seen = IF equal = {} THEN Differs
                   ELSE IF f.data = Content[f.mtime].data THEN f.mtime
                   ELSE IF f.mtime # src THEN Differs ELSE None
        BY <2>2 DEF Seen
      <3>3. equal # {} => f.mtime \in Ver /\ f.mtime # 0
        BY DEF TransferAssumption
      <3>4. f.mtime # 0 => f.data = Content[f.mtime].data
        BY <3>1 DEF SoloInv, Stamped
      <3> HIDE DEF equal, f
      <3>5. QED BY <3>2, <3>3, <3>4 DEF TransferAssumption
    <2>3. QED BY <2>1, <2>2
  <1>4. QED BY <1>1, <1>2, <1>3, PTL DEF Spec

----------------------------------------------------------------------------
(* Links and files. *)

LEMMA ModesMoves ==
  ASSUME Modes, NEW s \in Slot, Moved(s),
         snd'.pc = snd.pc, snd'.mode = snd.mode, snd'.ver = snd.ver
  PROVE  Modes'
  <1>1. Free.pc = "free"
    BY DEF Free
  <1>2. QED BY <1>1 DEF Moved, Modes

\* A request for a link is made in the mode for links only.
LEMMA ModesAsked ==
  ASSUME Modes, NEW kind, NEW data, NEW pc \in {"wait", "read"}, Asked(kind, data, pc),
         snd.pc # "idle", pc = "read" => snd.mode # "link", kind = "link" <=> snd.mode = "link"
  PROVE  Modes'
  BY DEF Asked, Sends, Modes

\* The sender keeps its mode for the whole push.
LEMMA ModesSender ==
  ASSUME TransferAssumption, TypeInv, Owned, Modes, Sender
  PROVE  Modes'
  <1>1. snd'.ver = snd.ver /\ snd'.mode = snd.mode /\ Free.pc = "free" /\ IsSnd(snd)
    BY SenderSends DEF Sends, Free, TypeInv
  <1>2. ASSUME snd.pc # "idle", snd'.pc # "idle", snd'.pc = "link" => snd.mode = "link",
               snd.mode = "link" => snd'.pc \in Over \cup {"start", "link", "wait"},
               \A t \in Slot : req'[t].pc # "free" => req[t].pc # "free" /\ req'[t].kind = req[t].kind
        PROVE  Modes'
    BY <1>1, <1>2 DEF Modes
  <1>3. snd.pc \in {"offset", "open", "sums", "read", "finish"} => snd.mode # "link" /\ snd.pc # "idle"
    BY DEF Modes, Over
  <1>4. CASE Start
    <2>1. snd.pc = "start" /\ req' = req /\ snd'.pc \in {"read", "offset", "sums", "link"}
          /\ (snd'.pc = "link" <=> snd.mode = "link")
      BY <1>4, StartIs
    <2>2. QED BY <1>2, <2>1 DEF Over
  <1>5. CASE SendOffset
    <2>1. snd.pc = "offset" /\ Asked("offset", <<>>, "wait")
      BY <1>5, AskIs DEF SendOffset
    <2>2. QED BY <1>3, <2>1, ModesAsked
  <1>6. CASE SendBody
    <2>1. snd.pc = "open" /\ Asked("stream", <<>>, "read")
      BY <1>6, AskIs DEF SendBody
    <2>2. QED BY <1>3, <2>1, ModesAsked
  <1>7. CASE SendSums
    <2>1. snd.pc = "sums" /\ Asked("sums", <<>>, "wait")
      BY <1>7, AskIs DEF SendSums
    <2>2. QED BY <1>3, <2>1, ModesAsked
  <1>8. CASE ReadWhole
    <2>1. snd.pc = "read" /\ req' = req /\ snd'.pc \in {"read", "changing"}
      BY <1>8, ReadWholeIs
    <2>2. QED BY <1>2, <1>3, <2>1
  <1>9. CASE ReadStreamed
    <2>1. snd.pc = "read" /\ snd'.pc \in {"read", "changing"}
      BY <1>9, ReadStreamedIs
    <2>2. snd.slot \in Slot /\ req[snd.slot].pc # "free"
      BY <1>1, <1>9, ReadStreamedIs DEF Owned, IsSnd
    <2>3. \A t \in Slot : t # snd.slot => req'[t] = req[t]
      BY <1>9, ReadStreamedIs
    <2>4. req'[snd.slot] = Free \/ req'[snd.slot].kind = req[snd.slot].kind
      BY <1>9, <2>2, ReadStreamedIs
    <2>5. \A t \in Slot : req'[t].pc # "free" => req[t].pc # "free" /\ req'[t].kind = req[t].kind
      BY <1>1, <2>2, <2>3, <2>4
    <2>6. QED BY <1>2, <1>3, <2>1, <2>5
  <1>10. CASE ReadChunked
    <2>1. snd.pc = "read" /\ snd'.pc \in {"read", "changing", "wait"}
      BY <1>10, ReadChunkedIs
    <2>2. CASE req' = req
      BY <1>2, <1>3, <2>1, <2>2
    <2>3. CASE req' # req
      <3>1. /\ FreeSlot \in Slot /\ \A t \in Slot \ {FreeSlot} : req'[t] = req[t]
            /\ req'[FreeSlot].kind = "chunk" /\ snd'.pc = "wait"
        BY <1>10, <2>3, ReadChunkedIs
      <3>2. QED BY <1>1, <1>3, <2>1, <3>1 DEF Modes
    <2>4. QED BY <2>2, <2>3
  <1>11. CASE ReadDone
    <2>1. snd.pc = "read"
      BY <1>11, ReadDoneIs
    <2>2. CASE \E kind \in {"put", "batch", "delta"} : Asked(kind, snd.buf, "wait")
      BY <1>3, <2>1, <2>2, ModesAsked
    <2>3. CASE req' = req /\ snd'.pc \in {"wait", "finish", "changing", "offset"}
      BY <1>2, <1>3, <2>1, <2>3
    <2>4. QED BY <1>11, <2>2, <2>3, ReadDoneIs
  <1>12. CASE SendLink
    <2>1. snd.pc = "link" /\ snd.mode = "link"
      BY <1>12, SendLinkIs DEF Modes
    <2>2. CASE Asked("link", Content[snd.ver].data, "wait")
      BY <2>1, <2>2, ModesAsked
    <2>3. CASE req' = req /\ snd'.pc \in {"start", "failed", "changing"}
      BY <1>2, <2>1, <2>3 DEF Over
    <2>4. QED BY <1>12, <2>2, <2>3, SendLinkIs
  <1>13. CASE SendFinish
    <2>1. snd.pc = "finish"
      BY <1>13, SendFinishIs
    <2>2. CASE Asked("finish", snd.buf, "wait")
      BY <1>3, <2>1, <2>2, ModesAsked
    <2>3. CASE req' = req /\ snd'.pc = "changing"
      BY <1>2, <1>3, <2>1, <2>3
    <2>4. QED BY <1>13, <2>2, <2>3, SendFinishIs
  <1>14. CASE Heard
    <2>1. snd.pc = "wait" /\ snd.slot \in Slot /\ req[snd.slot].pc # "free"
      BY <1>1, <1>14, HeardIs DEF Owned, IsSnd
    <2>2. (\A t \in Slot : t # snd.slot => req'[t] = req[t]) /\ req'[snd.slot] = Free
      BY <1>14, <2>1, HeardIs
    <2>3. \A t \in Slot : req'[t].pc # "free" => req[t].pc # "free" /\ req'[t].kind = req[t].kind
      BY <1>1, <2>2
    <2>4. snd'.pc \in {"start", "failed", "ok", "open", "read", "offset", "finish"}
          /\ (snd'.pc \in {"open", "read", "offset", "finish"} => req[snd.slot].kind # "link")
      BY <1>14, HeardIs
    <2>5. snd.mode = "link" => snd'.pc \in {"start", "failed", "ok"}
      BY <2>1, <2>4 DEF Modes
    <2>6. QED BY <1>2, <2>1, <2>3, <2>4, <2>5 DEF Over
  <1>15. QED
    BY <1>4, <1>5, <1>6, <1>7, <1>8, <1>9, <1>10, <1>11, <1>12, <1>13, <1>14 DEF Sender

\* A push chooses the mode by the kind of the version it sends.
LEMMA ModesStep ==
  ASSUME TransferAssumption, Solo, TypeInv, Owned, Modes, [Next]_vars
  PROVE  Modes'
  <1>1. Free.pc = "free" /\ IsSnd(snd)
    BY DEF Free, TypeInv
  <1>2. ASSUME snd'.pc = snd.pc, snd'.mode = snd.mode, snd'.ver = snd.ver,
               \A t \in Slot : req'[t].pc # "free" => req[t].pc # "free" /\ req'[t].kind = req[t].kind
        PROVE  Modes'
    BY <1>2 DEF Modes
  <1>3. CASE Push
    <2>1. /\ req' = req /\ snd.pc \in Over /\ snd'.pc = "start" /\ snd'.ver = src
          /\ snd'.mode = "link" <=> Content[src].kind = "link"
          /\ \A s \in Slot : ~Stale(s)
      BY <1>3, PushIs
    <2>2. \A s \in Slot : req[s].pc = "free"
      BY <2>1 DEF Owned, Stale, Over, TransferAssumption
    <2>3. QED BY <2>1, <2>2 DEF Modes
  <1>4. CASE Sender
    BY <1>4, ModesSender
  <1>5. ASSUME NEW s \in Slot, Receiver(s) PROVE Modes'
    <2>1. Moved(s) /\ snd' = snd
      BY <1>5, ReceiverHandled DEF Handled
    <2>2. QED BY <2>1, ModesMoves
  <1>6. CASE Edit \/ UNCHANGED vars
    <2>1. snd' = snd /\ req' = req
      BY <1>6 DEF Edit, vars
    <2>2. QED BY <1>2, <2>1
  <1>7. CASE GiveUp \/ Resend
    BY <1>7 DEF GiveUp, Resend, Solo, TypeInv, LeftType
  <1>8. CASE LoseReply
    <2>1. /\ snd.pc = "wait" /\ snd'.pc \in {"start", "failed"} /\ snd'.mode = snd.mode /\ snd'.ver = snd.ver
          /\ (\A t \in Slot : t # snd.slot => req'[t] = req[t]) /\ (snd.slot \in Slot => req'[snd.slot] = Free)
      BY <1>8, LoseReplyIs
    <2>2. QED BY <1>1, <2>1 DEF Modes, Over
  <1>9. CASE Crash
    <2>1. snd'.pc = snd.pc /\ snd'.mode = snd.mode /\ snd'.ver = snd.ver
      BY <1>9, CrashIs
    <2>2. \A t \in Slot : req'[t].pc # "free" => req[t].pc # "free" /\ req'[t].kind = req[t].kind
      BY <1>1, <1>9, CrashIs
    <2>3. QED BY <1>2, <2>1, <2>2
  <1>10. ASSUME NEW s \in Slot, Drop(s) PROVE Modes'
    <2>1. ReqType /\ req' = [req EXCEPT ![s] = Free] /\ snd' = snd
      BY <1>10 DEF Drop, TypeInv
    <2>2. req'[s] = Free /\ \A t \in Slot \ {s} : req'[t] = req[t]
      BY <2>1, FreeIs, RequestMoves
    <2>3. QED BY <1>1, <1>2, <2>1, <2>2
  <1>11. ASSUME NEW s \in Slot, HandlerFails(s) PROVE Modes'
    BY <1>11, HandlerFailsIs, ModesMoves
  <1>12. QED
    BY <1>3, <1>4, <1>5, <1>6, <1>7, <1>8, <1>9, <1>10, <1>11 DEF Next, Environment

\* A push that runs ends in an answer, an error or a changed source.
LEMMA SenderReports ==
  ASSUME TransferAssumption, TypeInv, Owned, Sender
  PROVE  /\ snd.pc \notin Over /\ snd'.pc # "idle"
         /\ snd'.pc = "ok" => /\ snd.slot \in Slot /\ req[snd.slot].pc = "ok"
                              /\ req[snd.slot].kind \in Whole \cup {"link"} /\ req[snd.slot].ver = snd.ver
         /\ late' = late \/ (late' = TRUE /\ snd'.pc = "changing")
  <1>1. IsSnd(snd)
    BY DEF TypeInv
  <1>2. ASSUME NEW kind, NEW data, NEW pc \in {"wait", "read"}, Asked(kind, data, pc)
        PROVE  snd'.pc \in {"wait", "read"}
    BY <1>2 DEF Asked
  <1>3. CASE Start
    BY <1>3, StartIs DEF Over, Start, SenderOnly
  <1>4. CASE SendOffset
    <2>1. snd.pc = "offset" /\ Asked("offset", <<>>, "wait") /\ late' = late
      BY <1>4, AskIs DEF SendOffset
    <2>2. QED BY <1>2, <2>1 DEF Over
  <1>5. CASE SendBody
    <2>1. snd.pc = "open" /\ Asked("stream", <<>>, "read") /\ late' = late
      BY <1>5, AskIs DEF SendBody
    <2>2. QED BY <1>2, <2>1 DEF Over
  <1>6. CASE SendSums
    <2>1. snd.pc = "sums" /\ Asked("sums", <<>>, "wait") /\ late' = late
      BY <1>6, AskIs DEF SendSums
    <2>2. QED BY <1>2, <2>1 DEF Over
  <1>7. CASE ReadWhole
    BY <1>7, ReadWholeIs DEF Over, ReadWhole, SenderOnly
  <1>8. CASE ReadStreamed
    <2>1. snd.slot \in Slot
      BY <1>1, <1>8, ReadStreamedIs DEF Owned, IsSnd
    <2>2. QED BY <1>8, <2>1, ReadStreamedIs DEF Over
  <1>9. CASE ReadChunked
    <2>1. late' = late
      BY <1>9 DEF ReadChunked, SenderOnly
    <2>2. QED BY <1>9, <2>1, ReadChunkedIs DEF Over
  <1>10. CASE ReadDone
    <2>1. CASE \E kind \in {"put", "batch", "delta"} : Asked(kind, snd.buf, "wait")
      BY <1>2, <1>10, <2>1, ReadDoneIs DEF Over
    <2>2. QED BY <1>10, <2>1, ReadDoneIs DEF Over
  <1>11. CASE SendLink
    <2>1. CASE Asked("link", Content[snd.ver].data, "wait")
      BY <1>2, <1>11, <2>1, SendLinkIs DEF Over
    <2>2. QED BY <1>11, <2>1, SendLinkIs DEF Over
  <1>12. CASE SendFinish
    <2>1. CASE Asked("finish", snd.buf, "wait")
      BY <1>2, <1>12, <2>1, SendFinishIs DEF Over
    <2>2. QED BY <1>12, <2>1, SendFinishIs DEF Over
  <1>13. CASE Heard
    <2>1. snd.pc = "wait" /\ late' = late
      BY <1>13, HeardIs
    <2>2. snd.slot \in Slot /\ req[snd.slot].ver = snd.ver
      BY <1>1, <2>1 DEF Owned, IsSnd
    <2>3. snd'.pc \in {"start", "failed", "ok", "open", "read", "offset", "finish"}
          /\ (snd'.pc = "ok" => req[snd.slot].pc = "ok" /\ req[snd.slot].kind \in Whole \cup {"link"})
      BY <1>13, HeardIs
    <2>4. QED BY <2>1, <2>2, <2>3 DEF Over
  <1>14. QED
    BY <1>3, <1>4, <1>5, <1>6, <1>7, <1>8, <1>9, <1>10, <1>11, <1>12, <1>13 DEF Sender

\* Before the check a handler may make files only, never links.
LEMMA KindsQuiet ==
  ASSUME TransferAssumption, TypeInv, Owned, Apart, Kinds, Done, NEW s \in Slot, Quiet(s)
  PROVE  Kinds' /\ Done'
  <1>1. /\ req[s].pc # "free" /\ (\A t \in Slot \ {s} : req'[t] = req[t]) /\ fin' = fin /\ snd' = snd
        /\ Free.pc = "free" /\ None \notin Inode
    BY DEF Quiet, Moved, Free, TransferAssumption
  <1>2. \A t \in Slot : req'[t].pc \notin {"sync", "stamp", "swap"}
    <2>1. req'[s].pc \notin {"sync", "stamp", "swap"}
      BY DEF Quiet
    <2>2. QED BY <1>1, <2>1, OthersWait
  <1>3. /\ tmp' \in Inode => disk'[tmp'].kind = "file" \/ (tmp' = tmp /\ disk'[tmp].kind = disk[tmp].kind)
        /\ fin \in Inode => disk'[fin] = disk[fin]
        /\ tmp' \in Inode \cup {None} /\ fin \in Inode \cup {None} /\ tmp \in Inode \cup {None}
    BY DEF Quiet, PathType, TypeInv
  <1>4. snd.pc # "idle"
    BY <1>1 DEF Owned
  <1>5. Kinds'
    BY <1>1, <1>2, <1>3, <1>4 DEF Kinds
  <1>6. Done'
    <2>1. req'[s].pc = "ok" => req'[s].kind \notin Whole \cup {"link"}
      BY <1>1 DEF Quiet, Moved
    <2>2. QED BY <1>1, <1>3, <2>1 DEF Done
  <1>7. QED BY <1>5, <1>6

\* From the check on the file at the temporary path has the kind of the version.
LEMMA KindsTail ==
  ASSUME TransferAssumption, TypeInv, Owned, Carried, Files, Modes, Kinds, Done, NEW s \in Slot,
         HandleLink(s) \/ Verify(s) \/ Sync(s) \/ Stamp(s) \/ Swap(s)
  PROVE  Kinds' /\ Done'
  <1>1. IsReq(req[s]) /\ None \notin Inode /\ Free.pc = "free" /\ DiskType
    BY DEF TransferAssumption, TypeInv, ReqType, Free
  <1>2. CASE HandleLink(s)
    <2> DEFINE f == FileOf(req[s].ver)
    <2>1. /\ tmp' \in Inode /\ fin' = fin /\ disk'[tmp'] = f /\ snd' = snd
          /\ fin \in Inode => disk'[fin] = disk[fin]
          /\ req'[s].pc = "swap" /\ req'[s].ver = req[s].ver
          /\ \A t \in Slot \ {s} : req'[t] = req[t]
          /\ req[s].kind = "link"
      BY <1>2, LinkIs DEF Handled, Moved
    <2>2. f.kind = Content[req[s].ver].kind
      BY <1>1, FileOfIs DEF IsReq
    <2>3. req[s].pc = "new"
      BY <1>2 DEF HandleLink
    <2> HIDE DEF f
    <2>4. req[s].pc # "free"
      BY <2>3
    <2>5. \A t \in Slot \ {s} : req'[t].pc \notin {"sync", "stamp", "swap"}
      <3>1. \A t \in Slot \ {s} : req[t].pc \notin {"verify", "sync", "stamp", "swap"}
        BY <2>4, OthersWait
      <3>2. QED BY <2>1, <3>1
    <2>6. snd.mode = "link" /\ snd.pc # "idle"
      BY <2>1, <2>4 DEF Modes, Owned
    <2>7. Kinds'
      BY <1>1, <2>1, <2>2, <2>5, <2>6 DEF Kinds, TypeInv, PathType
    <2>8. Done'
      BY <1>1, <2>1 DEF Done, TypeInv, PathType
    <2>9. QED BY <2>7, <2>8
  <1>3. CASE Verify(s)
    <2>1. CASE Quiet(s)
      BY <2>1, KindsQuiet DEF Files
    <2>2. CASE ~Quiet(s)
      <3>1. /\ UNCHANGED <<tmp, fin>> /\ tmp \in Inode /\ snd' = snd
            /\ req[s].pc = "verify" /\ req'[s].pc = "sync" /\ req'[s].ver = req[s].ver
            /\ disk'[tmp] = disk[tmp] /\ (fin \in Inode => disk'[fin] = disk[fin])
            /\ \A t \in Slot \ {s} : req'[t] = req[t]
        BY <1>3, <2>2, VerifyIs DEF Handled, Moved
      <3>2. req[s].pc # "free"
        BY <3>1
      <3>3. \A t \in Slot \ {s} : req'[t].pc \notin {"sync", "stamp", "swap"}
        <4>1. \A t \in Slot \ {s} : req[t].pc \notin {"verify", "sync", "stamp", "swap"}
          BY <3>2, OthersWait
        <4>2. QED BY <3>1, <4>1
      <3>4. req[s].ver = snd.ver /\ snd.pc \in {"wait", "read"}
        BY <3>1, <3>2, OnlyOne
      <3>5. snd.mode # "link"
        BY <3>1, <3>2 DEF Carried, Whole, Modes
      <3>6. disk[tmp].kind = "file"
        BY <1>1, <3>1, <3>5 DEF Kinds, DiskType, IsFile
      <3>7. Content[req[s].ver].kind = "file"
        BY <1>1, <3>4, <3>5 DEF Modes, TransferAssumption, IsReq
      <3>8. Kinds'
        BY <1>1, <3>1, <3>3, <3>6, <3>7 DEF Kinds, TypeInv, PathType
      <3>9. Done'
        BY <1>1, <3>1 DEF Done, TypeInv, PathType
      <3>10. QED BY <3>8, <3>9
    <2>3. QED BY <2>1, <2>2
  <1>4. CASE Sync(s) \/ Stamp(s) \/ Swap(s)
    <2>1. req[s].pc \in {"sync", "stamp", "swap"}
      BY <1>4, SyncIs, StampIs, SwapIs
    <2>2. tmp \in Inode /\ tmp # None /\ tmp # fin /\ disk[tmp].kind = Content[req[s].ver].kind
      BY <2>1 DEF Files, Assembled, Apart, TypeInv, PathType, Kinds
    <2>3. /\ \A t \in Slot \ {s} : req'[t] = req[t] /\ req[t].pc = "free"
          /\ snd.pc # "idle" /\ snd' = snd
      <3>1. req[s].pc # "free"
        BY <2>1
      <3>2. \A t \in Slot \ {s} : req[t].pc = "free"
        BY <2>1, OnlyOne
      <3>3. snd.pc # "idle"
        BY <3>1 DEF Owned
      <3>4. (\A t \in Slot \ {s} : req'[t] = req[t]) /\ snd' = snd
        BY <1>4, SyncIs, StampIs, SwapIs DEF Handled, Moved
      <3>5. QED BY <3>2, <3>3, <3>4
    <2>4. CASE Sync(s)
      <3>1. /\ UNCHANGED <<tmp, fin>> /\ \A i \in Inode \ {tmp} : disk'[i] = disk[i]
            /\ req'[s].pc = "stamp" /\ req'[s].ver = req[s].ver /\ disk'[tmp].kind = disk[tmp].kind
        BY <2>2, <2>4, SyncIs
      <3>2. Kinds'
        BY <1>1, <2>2, <2>3, <3>1 DEF Kinds, TypeInv, PathType
      <3>3. Done'
        BY <1>1, <2>2, <2>3, <3>1 DEF Done, TypeInv, PathType
      <3>4. QED BY <3>2, <3>3
    <2>5. CASE Stamp(s)
      <3>1. /\ UNCHANGED <<tmp, fin>> /\ \A i \in Inode \ {tmp} : disk'[i] = disk[i]
            /\ req'[s].pc = "swap" /\ req'[s].ver = req[s].ver /\ disk'[tmp].kind = disk[tmp].kind
        BY <2>2, <2>5, StampIs
      <3>2. Kinds'
        BY <1>1, <2>2, <2>3, <3>1 DEF Kinds, TypeInv, PathType
      <3>3. Done'
        BY <1>1, <2>2, <2>3, <3>1 DEF Done, TypeInv, PathType
      <3>4. QED BY <3>2, <3>3
    <2>6. CASE Swap(s)
      <3>1. /\ req[s].pc = "swap" /\ disk'[tmp] = disk[tmp]
            /\ \/ fin' = None /\ UNCHANGED <<tmp, req>>
               \/ fin' = tmp /\ tmp' = None /\ req'[s].pc \in {"free", "ok"}
            /\ req'[s].pc = "free" \/ req'[s].ver = req[s].ver
        BY <2>2, <2>6, SwapIs, FreeIs DEF Handled, Moved
      <3>2. disk[tmp].mtime = req[s].ver
        BY <3>1 DEF Files, Assembled
      <3>3. Kinds'
        BY <1>1, <2>2, <2>3, <3>1, <3>2 DEF Kinds
      <3>4. Done'
        <4>1. \A t \in Slot : req'[t].pc = "ok" => t = s /\ fin' = tmp /\ req'[s].ver = req[s].ver
          BY <2>3, <3>1
        <4>2. QED BY <2>2, <3>1, <3>2, <4>1 DEF Done
      <3>5. QED BY <3>3, <3>4
    <2>7. QED BY <1>4, <2>4, <2>5, <2>6
  <1>5. QED BY <1>2, <1>3, <1>4

\* The kinds and the answers hold after every step, unless a link may become a file.
LEMMA KindsStep ==
  ASSUME TransferAssumption, Solo, LinksStay, TypeInv, Owned, Reading, Carried, Files,
         Modes, Kinds, Done, [Next]_vars
  PROVE  Kinds' /\ Done'
  <1>1. Free.pc = "free" /\ None \notin Inode /\ PathType
    BY DEF Free, TransferAssumption, TypeInv
  <1>2. ASSUME UNCHANGED <<disk, tmp, fin>>, snd'.mode = snd.mode, snd'.pc = "idle" => snd.pc = "idle",
               \A t \in Slot : \/ req'[t] = req[t] \/ req'[t].pc \in {"free", "new"}
                               \/ req[t].kind = "stream" /\ req'[t].kind = "stream" /\ req'[t].pc = req[t].pc
        PROVE  Kinds' /\ Done'
    <2>1. \A t \in Slot : req'[t].pc \in {"sync", "stamp", "swap"} => req'[t] = req[t]
      BY <1>2 DEF Owned
    <2>2. \A t \in Slot : req'[t].pc = "ok" /\ req'[t].kind \in Whole \cup {"link"} => req'[t] = req[t]
      BY <1>2 DEF Whole
    <2>3. Kinds'
      BY <1>2, <2>1 DEF Kinds
    <2>4. Done'
      BY <1>2, <2>2 DEF Done
    <2>5. QED BY <2>3, <2>4
  <1>3. CASE Sender
    <2>1. UNCHANGED <<disk, tmp, fin>> /\ snd'.mode = snd.mode /\ snd'.pc # "idle"
      BY <1>3, SenderSends, SenderReports DEF Sends
    <2>2. QED BY <1>2, <1>3, <2>1, SenderLeaves
  <1>4. ASSUME NEW s \in Slot, Receiver(s) PROVE Kinds' /\ Done'
    <2>1. CASE HandleLink(s) \/ Verify(s) \/ Sync(s) \/ Stamp(s) \/ Swap(s)
      BY <2>1, KindsTail
    <2>2. CASE ~(HandleLink(s) \/ Verify(s) \/ Sync(s) \/ Stamp(s) \/ Swap(s))
      <3>1. Quiet(s)
        BY <1>4, <2>2, OffsetQuiet, OpenQuiet, ChunkQuiet, StreamQuiet, PutQuiet,
           SumsQuiet, DeltaQuiet, FinishQuiet DEF Receiver
      <3>2. QED BY <3>1, KindsQuiet DEF Files
    <2>3. QED BY <2>1, <2>2
  <1>5. CASE Push
    <2>1. /\ UNCHANGED <<disk, tmp, fin, req>> /\ snd.pc \in Over /\ snd'.pc = "start"
          /\ snd'.mode = "link" <=> Content[src].kind = "link"
      BY <1>5, PushIs
    <2>2. tmp # None /\ disk[tmp].kind = "link" => snd'.mode = "link"
      <3>1. SUFFICES ASSUME tmp # None, disk[tmp].kind = "link" PROVE Content[src].kind = "link"
        BY <2>1
      <3>2. Content[snd.ver].kind = "link"
        BY <3>1 DEF Kinds, Modes
      <3>3. snd.ver \in Ver /\ src \in Ver /\ snd.ver <= src /\ snd.ver \in Nat /\ src \in Nat
        BY DEF TypeInv, IsSnd, Reading, TransferAssumption
      <3>4. CASE snd.ver = src
        BY <3>2, <3>4
      <3>5. CASE snd.ver < src
        BY <3>2, <3>3, <3>5 DEF LinksStay
      <3>6. QED BY <3>3, <3>4, <3>5
    <2>3. Kinds'
      BY <2>1, <2>2 DEF Kinds
    <2>4. Done'
      BY <2>1 DEF Done
    <2>5. QED BY <2>3, <2>4
  <1>6. CASE Edit \/ UNCHANGED vars
    <2>1. UNCHANGED <<disk, tmp, fin, snd, req>>
      BY <1>6 DEF Edit, vars
    <2>2. QED BY <1>2, <2>1
  <1>7. CASE GiveUp \/ Resend
    BY <1>7 DEF GiveUp, Resend, Solo, TypeInv, LeftType
  <1>8. CASE LoseReply
    <2>1. /\ UNCHANGED <<disk, tmp, fin>> /\ snd'.mode = snd.mode /\ snd'.pc \in {"start", "failed"}
          /\ (\A t \in Slot : t # snd.slot => req'[t] = req[t]) /\ (snd.slot \in Slot => req'[snd.slot] = Free)
      BY <1>8, LoseReplyIs
    <2>2. QED BY <1>1, <1>2, <2>1
  <1>9. CASE Crash
    <2>1. /\ fin' = fin /\ tmp' \in {tmp, None} /\ snd'.pc = snd.pc /\ snd'.mode = snd.mode
          /\ \A i \in {tmp', fin} \cap Inode : disk'[i].kind = disk[i].kind /\ disk'[i].mtime = disk[i].mtime
      BY <1>9, CrashIs
    <2>2. \A s \in Slot : /\ req'[s].pc \in {"free", "ok", "err"}
                          /\ req'[s].pc = "ok" => req'[s] = req[s]
      BY <1>1, <1>9, CrashIs
    <2>3. (tmp' # None => disk'[tmp'].kind = disk[tmp].kind /\ tmp # None)
          /\ (fin # None => disk'[fin].kind = disk[fin].kind /\ disk'[fin].mtime = disk[fin].mtime)
      BY <1>1, <2>1 DEF PathType
    <2>4. Kinds'
      BY <2>1, <2>2, <2>3 DEF Kinds
    <2>5. Done'
      BY <2>1, <2>2, <2>3 DEF Done
    <2>6. QED BY <2>4, <2>5
  <1>10. ASSUME NEW s \in Slot, Drop(s) PROVE Kinds' /\ Done'
    <2>1. ReqType /\ req' = [req EXCEPT ![s] = Free] /\ UNCHANGED <<disk, tmp, fin, snd>>
      BY <1>10 DEF Drop, TypeInv
    <2>2. req'[s] = Free /\ \A t \in Slot \ {s} : req'[t] = req[t]
      BY <2>1, FreeIs, RequestMoves
    <2>3. QED BY <1>1, <1>2, <2>1, <2>2
  <1>11. ASSUME NEW s \in Slot, HandlerFails(s) PROVE Kinds' /\ Done'
    <2>1. /\ UNCHANGED <<tmp, fin>> /\ req'[s].pc \in {"free", "err"} /\ (\A t \in Slot \ {s} : req'[t] = req[t])
          /\ tmp \in Inode => disk'[tmp] = disk[tmp]
          /\ fin \in Inode => disk'[fin] = disk[fin]
          /\ snd'.pc = snd.pc /\ snd'.mode = snd.mode
      BY <1>11, HandlerFailsIs DEF Moved
    <2>2. Kinds'
      <3>1. /\ tmp # None => disk'[tmp] = disk[tmp]
            /\ fin # None => disk'[fin] = disk[fin]
        BY <1>1, <2>1 DEF PathType
      <3>2. \A t \in Slot : req'[t].pc \in {"sync", "stamp", "swap"} => req'[t] = req[t] /\ tmp # None
        BY <2>1 DEF Files, Assembled
      <3>3. QED BY <2>1, <3>1, <3>2 DEF Kinds
    <2>3. Done'
      BY <1>1, <2>1 DEF Done, PathType
    <2>4. QED BY <2>2, <2>3
  <1>12. QED
    BY <1>3, <1>4, <1>5, <1>6, <1>7, <1>8, <1>9, <1>10, <1>11 DEF Next, Environment

----------------------------------------------------------------------------
(* The abstract file. *)

LEMMA KindInit ==
  ASSUME TransferAssumption, Init
  PROVE  KindInv /\ fin \in Inode
  <1>1. SoloInv /\ fin \in Inode
    BY SoloInit, TypeInit
  <1>2. Free.pc = "free" /\ 1 \in Ver /\ tmp = None /\ snd.pc = "idle" /\ snd.mode = "put"
        /\ \A s \in Slot : req[s] = Free
    BY DEF Free, TransferAssumption, Init
  <1>3. disk[fin] = FileOf(1)
    BY <1>1 DEF Init
  <1>4. disk[fin].mtime = 1 /\ disk[fin].kind = Content[1].kind
    BY <1>2, <1>3, FileOfIs
  <1>5. Modes
    BY <1>2 DEF Modes, Over
  <1>6. Kinds
    BY <1>2, <1>4 DEF Kinds
  <1>7. Done
    BY <1>2 DEF Done
  <1>8. QED BY <1>1, <1>5, <1>6, <1>7 DEF KindInv

\* The invariant with the kinds is inductive.
LEMMA KindStep ==
  ASSUME TransferAssumption, Solo, LinksStay, KindInv, [Next]_vars
  PROVE  KindInv'
  <1>1. SoloInv'
    BY SoloStep DEF KindInv
  <1>2. Modes'
    BY ModesStep DEF KindInv, SoloInv
  <1>3. Kinds' /\ Done'
    BY KindsStep DEF KindInv, SoloInv, Files
  <1>4. QED BY <1>1, <1>2, <1>3 DEF KindInv

\* A reader sees the version whose mtime the file has.
SeenFact ==
    /\ fin = None => Seen = Absent
    /\ fin # None => Seen = disk[fin].mtime /\ disk[fin].mtime \in Ver

\* What is at the final path carries the mtime of what it is, so a reader sees that.
LEMMA SeenIs ==
  ASSUME TransferAssumption, KindInv
  PROVE  SeenFact
  <1>1. CASE fin = None
    BY <1>1 DEF Seen, SeenFact
  <1>2. CASE fin # None
    <2> DEFINE f == disk[fin]
               equal == {v \in Ver : f.kind = Content[v].kind /\ Len(f.data) = Size(v) /\ f.mtime = v}
    <2>1. fin \in Inode /\ IsFile(f)
      BY <1>2 DEF KindInv, SoloInv, TypeInv, PathType, DiskType
    <2>2. f.mtime # 0 /\ f.kind = Content[f.mtime].kind
      BY <1>2 DEF KindInv, SoloInv, Apart, Kinds
    <2>3. f.mtime \in Ver /\ f.data = Content[f.mtime].data
      BY <2>1, <2>2 DEF KindInv, SoloInv, Stamped, IsFile
    <2>4. f.mtime \in equal
      BY <2>2, <2>3 DEF Size
    <2>5. Seen = IF equal = {} THEN Differs
                 ELSE IF f.data = Content[f.mtime].data THEN f.mtime
                 ELSE IF f.mtime # src THEN Differs ELSE None
      BY <1>2 DEF Seen
    <2> HIDE DEF equal, f
    <2>6. Seen = f.mtime
      BY <2>3, <2>4, <2>5
    <2>7. QED BY <1>2, <2>3, <2>6 DEF f, SeenFact
  <1>3. QED BY <1>1, <1>2

\* The same of the next state.
LEMMA SeenNext ==
  ASSUME TransferAssumption
  PROVE  KindInv' => SeenFact'
  <1>1. KindInv => SeenFact
    BY SeenIs
  <1>2. QED BY <1>1, PTL

State == IF snd.pc \in Over THEN snd.pc ELSE "busy"

\* Where the final path and the mtime there stay, a reader sees no change.
LEMMA SeenKept ==
  ASSUME SeenFact, SeenFact', fin' = fin, fin # None => disk'[fin].mtime = disk[fin].mtime
  PROVE  Seen' = Seen
  BY DEF SeenFact

\* The handlers replace what readers see by the version that is sent, or take away
\* what is of another kind.
LEMMA ReceiverReplaces ==
  ASSUME TransferAssumption, KindInv, SeenFact, SeenFact', NEW s \in Slot, Receiver(s)
  PROVE  \/ Seen' = Seen
         \/ State = "busy" /\ Seen' \in {snd.ver, Absent}
  <1>1. TypeInv /\ Owned /\ Files /\ PathType
    BY DEF KindInv, SoloInv, Files, TypeInv
  <1>2. CASE Swap(s)
    <2>1. req[s].pc = "swap"
      BY <1>2, SwapIs, <1>1
    <2>2. req[s].ver = snd.ver /\ snd.pc \in {"wait", "read"}
      <3>1. req[s].pc # "free"
        BY <2>1
      <3>2. QED BY <1>1, <2>1, <3>1, OnlyOne
    <2>3. State = "busy"
      BY <2>2 DEF State, Over
    <2>4. tmp # None /\ disk[tmp].mtime = req[s].ver
      BY <1>1, <2>1 DEF Files, Assembled
    <2>5. disk'[tmp] = disk[tmp] /\ fin' \in {None, tmp}
      BY <1>1, <1>2, <2>4, SwapIs
    <2>6. QED BY <2>2, <2>3, <2>4, <2>5 DEF SeenFact
  <1>3. CASE Sync(s) \/ Stamp(s)
    <2>1. req[s].pc \in {"sync", "stamp"} /\ fin' = fin /\ \A i \in Inode \ {tmp} : disk'[i] = disk[i]
      BY <1>1, <1>3, SyncIs, StampIs
    <2>2. tmp # None /\ tmp # fin
      BY <1>1, <2>1 DEF Files, Assembled, Apart
    <2>3. fin # None => disk'[fin] = disk[fin]
      BY <1>1, <2>1, <2>2 DEF PathType
    <2>4. QED BY <2>1, <2>3, SeenKept
  <1>4. CASE HandleLink(s)
    <2>1. fin' = fin /\ (fin \in Inode => disk'[fin] = disk[fin])
      BY <1>1, <1>4, LinkIs
    <2>2. QED BY <1>1, <2>1, SeenKept DEF PathType
  <1>5. ASSUME Quiet(s) PROVE Seen' = Seen
    <2>1. fin' = fin /\ (fin \in Inode => disk'[fin] = disk[fin])
      BY <1>1, <1>5 DEF Quiet, Files
    <2>2. QED BY <1>1, <2>1, SeenKept DEF PathType
  <1>6. CASE Verify(s)
    <2>1. CASE ~Quiet(s)
      <3>1. fin' = fin /\ (fin \in Inode => disk'[fin] = disk[fin])
        BY <1>1, <1>6, <2>1, VerifyIs
      <3>2. QED BY <1>1, <3>1, SeenKept DEF PathType
    <2>2. QED BY <1>5, <2>1
  <1>7. QED
    BY <1>1, <1>2, <1>3, <1>4, <1>5, <1>6, OffsetQuiet, OpenQuiet, ChunkQuiet, StreamQuiet, PutQuiet,
       SumsQuiet, DeltaQuiet, FinishQuiet DEF Receiver

\* A step of the protocol is a step of the abstract file, or one it does not see.
LEMMA ReplaceStep ==
  ASSUME TransferAssumption, Solo, KindInv, KindInv', SeenFact, SeenFact', [Next]_vars
  PROVE  [Transfers!Next]_(Transfers!vars)
  <1>1. TypeInv /\ Owned /\ PathType /\ src \in Ver
    BY DEF KindInv, SoloInv, TypeInv
  <1>2. ASSUME UNCHANGED <<Seen, snd, late>> PROVE UNCHANGED <<Seen, snd.ver, State, late>>
    BY <1>2 DEF State
  <1>3. ASSUME UNCHANGED <<Seen, snd.ver, State, late>> PROVE UNCHANGED Transfers!vars
    BY <1>3 DEF Transfers!vars, State, Over
  <1>4. CASE Sender
    <2>1. UNCHANGED <<disk, fin>> /\ snd'.ver = snd.ver
      BY <1>1, <1>4, SenderSends DEF Sends
    <2>2. Seen' = Seen
      BY <2>1, SeenKept
    <2>3. snd.pc \notin Over /\ snd'.pc # "idle" /\ (late' = late \/ (late' = TRUE /\ snd'.pc = "changing"))
      BY <1>1, <1>4, SenderReports
    <2>4. State = "busy"
      BY <2>3 DEF State
    <2>5. CASE snd'.pc \notin Over
      <3>1. State' = "busy" /\ late' = late
        BY <2>3, <2>5 DEF State, Over
      <3>2. QED BY <1>3, <2>1, <2>2, <2>4, <3>1
    <2>6. CASE snd'.pc \in Over
      <3>1. State' = snd'.pc /\ State' \in {"ok", "changing", "failed"}
        BY <2>3, <2>6 DEF State, Over
      <3>2. State' = "ok" => Seen = snd.ver
        <4>1. SUFFICES ASSUME snd'.pc = "ok" PROVE Seen = snd.ver
          BY <3>1
        <4>2. /\ snd.slot \in Slot /\ req[snd.slot].pc = "ok"
              /\ req[snd.slot].kind \in Whole \cup {"link"} /\ req[snd.slot].ver = snd.ver
          BY <1>1, <1>4, <4>1, SenderReports
        <4>3. fin # None /\ disk[fin].mtime = snd.ver
          BY <4>2 DEF KindInv, Done
        <4>4. QED BY <4>3 DEF SeenFact
      <3>3. CASE late' = late
        <4>1. Transfers!Report
          BY <2>1, <2>2, <2>4, <3>1, <3>2, <3>3 DEF Transfers!Report, State, Over
        <4>2. QED BY <4>1 DEF Transfers!Next
      <3>4. CASE late' = TRUE /\ snd'.pc = "changing"
        <4>1. Transfers!GiveUp
          BY <2>1, <2>2, <2>4, <3>1, <3>4 DEF Transfers!GiveUp, State, Over
        <4>2. QED BY <4>1 DEF Transfers!Next
      <3>5. QED BY <2>3, <3>3, <3>4
    <2>7. QED BY <2>5, <2>6
  <1>5. ASSUME NEW s \in Slot, Receiver(s) PROVE [Transfers!Next]_(Transfers!vars)
    <2>1. UNCHANGED <<snd, late>>
      BY <1>1, <1>5, ReceiverHandled DEF Handled
    <2>2. CASE Seen' = Seen
      BY <1>2, <1>3, <2>1, <2>2
    <2>3. CASE State = "busy" /\ Seen' \in {snd.ver, Absent}
      <3>1. Transfers!Replace
        BY <2>1, <2>3 DEF Transfers!Replace, State, Over
      <3>2. QED BY <3>1 DEF Transfers!Next
    <2>4. QED BY <1>5, <2>2, <2>3, ReceiverReplaces
  <1>6. CASE Push
    <2>1. /\ UNCHANGED <<disk, fin>> /\ snd.pc \in Over /\ snd'.pc = "start" /\ snd'.ver = src /\ ~late' /\ late' \in BOOLEAN
      BY <1>1, <1>6, PushIs
    <2>2. Seen' = Seen
      BY <2>1, SeenKept
    <2>3. Transfers!Begin
      BY <1>1, <2>1, <2>2 DEF Transfers!Begin, State, Over
    <2>4. QED BY <2>3 DEF Transfers!Next
  <1>7. CASE Edit \/ UNCHANGED vars
    <2>1. UNCHANGED <<disk, fin, snd, late>>
      BY <1>7 DEF Edit, vars
    <2>2. QED BY <1>2, <1>3, <2>1, SeenKept
  <1>8. CASE GiveUp \/ Resend
    BY <1>1, <1>8 DEF GiveUp, Resend, Solo, TypeInv, LeftType
  <1>9. CASE LoseReply
    <2>1. UNCHANGED <<disk, fin, late>> /\ snd.pc = "wait" /\ snd'.pc \in {"start", "failed"} /\ snd'.ver = snd.ver
      BY <1>1, <1>9, LoseReplyIs
    <2>2. Seen' = Seen
      BY <2>1, SeenKept
    <2>3. CASE snd'.pc = "start"
      <3>1. State' = State
        BY <2>1, <2>3 DEF State, Over
      <3>2. QED BY <1>3, <2>1, <2>2, <3>1
    <2>4. CASE snd'.pc = "failed"
      <3>1. Transfers!Report
        BY <2>1, <2>2, <2>4 DEF Transfers!Report, State, Over
      <3>2. QED BY <3>1 DEF Transfers!Next
    <2>5. QED BY <2>1, <2>3, <2>4
  <1>10. CASE Crash
    <2>1. UNCHANGED <<fin, late>> /\ snd'.pc = snd.pc /\ snd'.ver = snd.ver
          /\ \A i \in {tmp', fin} \cap Inode : disk'[i].mtime = disk[i].mtime
      BY <1>1, <1>10, CrashIs
    <2>2. Seen' = Seen
      BY <1>1, <2>1, SeenKept DEF PathType
    <2>3. State' = State
      BY <2>1 DEF State
    <2>4. QED BY <1>3, <2>1, <2>2, <2>3
  <1>11. ASSUME NEW s \in Slot, Drop(s) PROVE [Transfers!Next]_(Transfers!vars)
    <2>1. UNCHANGED <<disk, fin, snd, late>>
      BY <1>11 DEF Drop
    <2>2. QED BY <1>2, <1>3, <2>1, SeenKept
  <1>12. ASSUME NEW s \in Slot, HandlerFails(s) PROVE [Transfers!Next]_(Transfers!vars)
    <2>1. UNCHANGED <<fin, late>> /\ snd'.pc = snd.pc /\ snd'.ver = snd.ver
          /\ (fin \in Inode => disk'[fin] = disk[fin])
      BY <1>1, <1>12, HandlerFailsIs
    <2>2. Seen' = Seen
      BY <1>1, <2>1, SeenKept DEF PathType
    <2>3. State' = State
      BY <2>1 DEF State
    <2>4. QED BY <1>3, <2>1, <2>2, <2>3
  <1>13. QED
    BY <1>4, <1>5, <1>6, <1>7, <1>8, <1>9, <1>10, <1>11, <1>12 DEF Next, Environment

\* The protocol implements AtomicReplace where no request outlives its sender and a
\* link does not become a file: readers see whole versions only, and ok is reported
\* only when the version sent is there.
THEOREM Replaces ==
  ASSUME TransferAssumption, Solo, LinksStay
  PROVE  Spec => ReplacesAtomically
  <1>1. Init => Transfers!Init
    <2>1. SUFFICES ASSUME Init PROVE Transfers!Init
      OBVIOUS
    <2>2. KindInv /\ fin \in Inode /\ fin # None
      BY <2>1, KindInit DEF TransferAssumption
    <2>3. Seen \in Ver
      BY <2>2, SeenIs DEF SeenFact
    <2>4. snd.pc = "idle" /\ snd.ver \in Ver /\ late = FALSE
      BY <2>1 DEF Init, TransferAssumption
    <2>5. QED BY <2>3, <2>4 DEF Transfers!Init
  <1>2. Init => KindInv
    BY KindInit
  <1>3. KindInv /\ [Next]_vars => KindInv'
    BY KindStep
  <1>4. KindInv => SeenFact
    BY SeenIs
  <1>5. KindInv /\ KindInv' /\ SeenFact /\ SeenFact' /\ [Next]_vars => [Transfers!Next]_(Transfers!vars)
    BY ReplaceStep
  <1>6. QED BY <1>1, <1>2, <1>3, <1>4, <1>5, PTL DEF Spec, ReplacesAtomically, Transfers!Spec

=============================================================================
