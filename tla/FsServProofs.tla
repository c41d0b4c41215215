--------------------------- MODULE FsServProofs ---------------------------
(***************************************************************************)
(* Proofs about FsServ, for any number of clients, descriptors, files and  *)
(* entries of opentab[].                                                   *)
(***************************************************************************)
EXTENDS FsServ, FiniteSetTheorems, TLAPS

-----------------------------------------------------------------------------
(***************************************************************************)
(* Arithmetic of file ids.                                                 *)
(***************************************************************************)
LEMMA ModOf ==
  ASSUME NEW n \in Nat \ {0}, NEW a \in Nat, NEW q \in Nat, NEW r \in 0 .. n - 1, a = n * q + r
  PROVE  a % n = r
  OBVIOUS

\* Using an entry once more leaves it the entry of its id.
LEMMA ModAdd ==
  ASSUME NEW n \in Nat \ {0}, NEW a \in Nat
  PROVE  (a + n) % n = a % n
  <1> DEFINE q == a \div n
             r == a % n
  <1>1. q \in Nat /\ r \in 0 .. n - 1 /\ a = n * q + r
    OBVIOUS
  <1>2. a + n = n * (q + 1) + r /\ q + 1 \in Nat
    BY <1>1
  <1>3. a + n \in Nat
    OBVIOUS
  <1> HIDE DEF q, r
  <1>4. (a + n) % n = r
    BY <1>1, <1>2, <1>3, ModOf
  <1> QED BY <1>4 DEF r

LEMMA FileIds ==
  /\ MAXOPEN \in Nat \ {0}
  /\ Entry \subseteq FileId
  /\ FileId \subseteq Nat
  /\ \A id \in FileId : id % MAXOPEN \in Entry
  /\ \A i \in Entry : i \in Nat /\ i + 1 \in Entry \cup {NoEntry} /\ i # NoEntry /\ i % MAXOPEN = i
  /\ 0 \in Entry /\ 0 \in FileId
  <1>1. MAXOPEN \in Nat \ {0} /\ MaxUse \in Nat
    BY BoundAssumption
  <1> DEFINE n == MaxUse * MAXOPEN
  <1>2. n \in Nat
    BY <1>1
  <1>3. FileId = 0 .. n + MAXOPEN - 1
    BY DEF FileId
  <1> HIDE DEF n
  <1>4. \A i \in 0 .. MAXOPEN - 1 : i % MAXOPEN = i
    BY <1>1
  <1> QED BY <1>1, <1>2, <1>3, <1>4 DEF Entry, NoEntry

-----------------------------------------------------------------------------
(***************************************************************************)
(* Counting an Fd page's mappings.                                         *)
(***************************************************************************)
LEMMA HoldersFinite ==
  ASSUME NEW i \in Entry
  PROVE  /\ IsFiniteSet(Holders(i))
         /\ Cardinality(Holders(i)) \in Nat
         /\ Cardinality(Holders(i)) = 0 <=> Holders(i) = {}
  <1>1. IsFiniteSet(Client \X Fd)
    BY FS_Product, ClientAssumption, FdAssumption
  <1>2. Holders(i) \in SUBSET (Client \X Fd)
    BY DEF Holders
  <1>3. IsFiniteSet(Holders(i))
    BY <1>1, <1>2, FS_Subset
  <1> QED BY <1>3, FS_CardinalityType, FS_EmptySet

\* One mapping is the server's own.
LEMMA NobodyHas ==
  ASSUME FdNamesFile, NEW i \in Entry, pageref(i) <= 1
  PROVE  \A c \in Client : \A d \in Fd : fds[c][d] # i
  <1> SUFFICES ASSUME NEW c \in Client, NEW d \in Fd, fds[c][d] = i
               PROVE  FALSE
    OBVIOUS
  <1>1. i \in o_mapped
    BY FileIds DEF FdNamesFile, IsOpen
  <1>2. <<c, d>> \in Holders(i)
    BY DEF Holders
  <1>3. pageref(i) > 1
    BY <1>1, <1>2, HoldersFinite DEF pageref
  <1> QED BY <1>3, HoldersFinite DEF pageref

LEMMA SomebodyHas ==
  ASSUME NEW i \in Entry, NEW c \in Client, NEW d \in Fd, fds[c][d] = i, i \in o_mapped
  PROVE  pageref(i) > 1
  <1>1. <<c, d>> \in Holders(i)
    BY DEF Holders
  <1> QED BY <1>1, HoldersFinite DEF pageref

-----------------------------------------------------------------------------
(***************************************************************************)
(* The inductive invariant.                                                *)
(***************************************************************************)
\* A request for a file to be opened.
OpenReq == req \in [op : {"open"}, file : File]

\* An entry is found again under the ids it gives out.
EntryIds == \A i \in Entry : o_fileid[i] % MAXOPEN = i

\* What the server knows where it is in a request.
OpenRight ==
  /\ serving = "alloc" => OpenReq /\ \A i \in Entry : o_fileid[i] + MAXOPEN \in FileId
  /\ serving = "open" => OpenReq /\ entry \in o_mapped
  /\ serving = "reply" /\ req.op = "open" /\ answer = "ok" =>
       /\ OpenReq /\ entry \in o_mapped
       /\ fd_id[entry] = o_fileid[entry] /\ o_file[entry] = req.file

FileRight ==
  /\ serving \in {"lookup", "transfer", "advance"} => entry \in Entry /\ req.op \in OnFile
  /\ serving = "lookup" => entry = req.id % MAXOPEN
  /\ serving = "work" => req.op # "open"
  /\ serving = "advance" => fd_offset[entry] + moved \in Offset

AnswerRight == serving \notin {"reply", "unmap"} => answer = "none"

\* Who is served waits, if it lives, and who does not live waits for nothing.
ClientRight ==
  /\ serving # "recv" => status[whom] # "free"
  /\ serving \notin {"recv", "unmap", "panicked"} /\ status[whom] = "live" =>
       at[whom] \in {"sent", "reply"}
  /\ \A c \in Client : status[c] # "live" => at[c] = "user"

IInv ==
  /\ TypeOK
  /\ FdNamesFile /\ NewFdIsFresh /\ NobodyForgotten
  /\ EntryIds /\ OpenRight /\ FileRight /\ AnswerRight /\ ClientRight

-----------------------------------------------------------------------------
(***************************************************************************)
(* Each step preserves it.                                                 *)
(***************************************************************************)
LEMMA OpenStep ==
  ASSUME IInv, NEW c \in Client, NEW d \in Fd, NEW f \in File, Open(c, d, f)
  PROVE  IInv'
  <1>1. TypeOK'
    BY FileIds, OpsAssumption DEF IInv, TypeOK, Open, Fsipc, InUser, opentab, fdpages, Requests, Answers, NoEntry
  <1>2. FdNamesFile'
    BY DEF IInv, FdNamesFile, IsOpen, TypeOK, Open, Fsipc, InUser, opentab, fdpages
  <1>3. NewFdIsFresh'
    BY DEF IInv, NewFdIsFresh, TypeOK, Open, Fsipc, InUser, opentab, fdpages
  <1>4. NobodyForgotten'
    BY DEF IInv, NobodyForgotten, TypeOK, Open, Fsipc, InUser, opentab, fdpages
  <1>5. OpenRight'
    BY OpsAssumption DEF IInv, OpenRight, OpenReq, TypeOK, Open, Fsipc, InUser, opentab, fdpages, Requests
  <1>6. FileRight'
    BY OpsAssumption, FileIds DEF IInv, FileRight, TypeOK, Open, Fsipc, InUser, opentab, fdpages, Requests, OnFile
  <1>7. AnswerRight'
    BY DEF IInv, AnswerRight, TypeOK, Open, Fsipc, InUser, opentab, fdpages
  <1>8. ClientRight'
    BY DEF IInv, ClientRight, TypeOK, Open, Fsipc, InUser, opentab, fdpages
  <1>9. EntryIds'
    BY DEF IInv, EntryIds, Open, Fsipc, InUser, opentab, fdpages
  <1> QED BY <1>1, <1>2, <1>3, <1>4, <1>5, <1>6, <1>7, <1>8, <1>9 DEF IInv

\* A request about an open file: nothing depends on whose descriptor it is.
LEMMA OnFileStep ==
  ASSUME IInv, NEW c \in Client, NEW d \in Fd \cup {NoFd}, NEW op \in OnFile, NEW id \in FileId,
         Fsipc(c, d, [op |-> op, id |-> id]), fsipcbuf' = fsipcbuf \cup {c}
  PROVE  IInv'
  <1>1. /\ op # "open" /\ serving = "recv" /\ serving' = "lookup"
        /\ whom' = c /\ req' = [op |-> op, id |-> id]
        /\ entry' = id % MAXOPEN /\ id % MAXOPEN \in Entry /\ answer' = "none"
    BY FileIds, OpsAssumption DEF Fsipc, OnFile
  <1>2. TypeOK'
    <2>1. req' \in Requests
      BY <1>1 DEF Requests
    <2> QED BY <1>1, <2>1 DEF IInv, TypeOK, Fsipc, InUser, opentab, fdpages, Answers
  <1>3. FdNamesFile' /\ NewFdIsFresh' /\ NobodyForgotten'
    BY <1>1 DEF IInv, FdNamesFile, IsOpen, NewFdIsFresh, NobodyForgotten, TypeOK, Fsipc, InUser, opentab, fdpages
  <1>4. EntryIds' /\ OpenRight' /\ AnswerRight'
    BY <1>1 DEF IInv, EntryIds, OpenRight, AnswerRight, Fsipc, opentab
  <1>5. FileRight'
    BY <1>1 DEF FileRight
  <1>6. ClientRight'
    BY <1>1 DEF IInv, ClientRight, TypeOK, Fsipc, InUser
  <1> QED BY <1>2, <1>3, <1>4, <1>5, <1>6 DEF IInv

LEMMA OnDescriptorStep ==
  ASSUME IInv, NEW c \in Client, NEW d \in Fd, NEW op \in OnFile, OnDescriptor(c, d, op)
  PROVE  IInv'
  <1>1. fd_id[fds[c][d]] \in FileId
    BY DEF IInv, TypeOK, OnDescriptor, IsOpen
  <1> QED BY <1>1, OnFileStep DEF OnDescriptor

LEMMA OnCopyStep ==
  ASSUME IInv, NEW c \in Client, NEW op \in OnFile, NEW id \in FileId, OnCopy(c, op, id)
  PROVE  IInv'
  BY OnFileStep DEF OnCopy

LEMMA SyncStep ==
  ASSUME IInv, NEW c \in Client, Sync(c)
  PROVE  IInv'
  <1>1. TypeOK'
    BY FileIds, OpsAssumption DEF IInv, TypeOK, Sync, Fsipc, InUser, opentab, fdpages, Requests, Answers, NoEntry, OnFile
  <1>2. FdNamesFile'
    BY DEF IInv, FdNamesFile, IsOpen, TypeOK, Sync, Fsipc, InUser, opentab, fdpages
  <1>3. NewFdIsFresh'
    BY DEF IInv, NewFdIsFresh, TypeOK, Sync, Fsipc, InUser, opentab, fdpages
  <1>4. NobodyForgotten'
    BY DEF IInv, NobodyForgotten, TypeOK, Sync, Fsipc, InUser, opentab, fdpages
  <1>5. OpenRight'
    BY OpsAssumption DEF IInv, OpenRight, OpenReq, TypeOK, Sync, Fsipc, InUser, opentab, fdpages, Requests
  <1>6. FileRight'
    BY OpsAssumption, FileIds DEF IInv, FileRight, TypeOK, Sync, Fsipc, InUser, opentab, fdpages, Requests, OnFile
  <1>7. AnswerRight'
    BY OpsAssumption DEF IInv, AnswerRight, TypeOK, Sync, Fsipc, InUser, opentab, fdpages, OnFile
  <1>8. ClientRight'
    BY DEF IInv, ClientRight, TypeOK, Sync, Fsipc, InUser, opentab, fdpages
  <1>9. EntryIds'
    BY DEF IInv, EntryIds, Sync, Fsipc, InUser, opentab, fdpages
  <1> QED BY <1>1, <1>2, <1>3, <1>4, <1>5, <1>6, <1>7, <1>8, <1>9 DEF IInv

LEMMA ReceiveStep ==
  ASSUME IInv, NEW c \in Client, Receive(c)
  PROVE  IInv'
  <1>1. TypeOK'
    BY FileIds DEF IInv, TypeOK, Receive, opentab, fdpages, request
  <1>2. NobodyForgotten'
    BY DEF IInv, NobodyForgotten, TypeOK, Receive, opentab, fdpages, request
  <1>3. ClientRight'
    BY DEF IInv, ClientRight, TypeOK, Receive, opentab, fdpages, request
  <1>4. FdNamesFile' /\ NewFdIsFresh' /\ EntryIds' /\ OpenRight' /\ FileRight' /\ AnswerRight'
    BY DEF IInv, FdNamesFile, IsOpen, NewFdIsFresh, EntryIds, OpenRight, OpenReq, FileRight, AnswerRight, Receive, opentab, fdpages, request
  <1> QED BY <1>1, <1>2, <1>3, <1>4 DEF IInv

LEMMA UnmapFdStep ==
  ASSUME IInv, NEW c \in Client, UnmapFd(c)
  PROVE  IInv'
  <1>1. TypeOK'
    BY FileIds DEF IInv, TypeOK, UnmapFd, opentab, fdpages, request
  <1>2. FdNamesFile'
    BY DEF IInv, FdNamesFile, IsOpen, TypeOK, UnmapFd, opentab, fdpages, request
  <1>3. NewFdIsFresh'
    BY FileIds DEF IInv, NewFdIsFresh, TypeOK, UnmapFd, opentab, fdpages, request, OpenRight
  <1>4. NobodyForgotten'
    BY DEF IInv, NobodyForgotten, TypeOK, UnmapFd, opentab, fdpages, request
  <1>5. FileRight'
    BY OpsAssumption, FileIds DEF IInv, FileRight, TypeOK, UnmapFd, opentab, fdpages, request, ClientRight
  <1>6. ClientRight'
    BY DEF IInv, ClientRight, TypeOK, UnmapFd, opentab, fdpages, request
  <1>7. EntryIds' /\ OpenRight' /\ AnswerRight'
    BY DEF IInv, EntryIds, OpenRight, OpenReq, AnswerRight, UnmapFd, opentab, fdpages, request
  <1> QED BY <1>1, <1>2, <1>3, <1>4, <1>5, <1>6, <1>7 DEF IInv

LEMMA UnmapStep ==
  ASSUME IInv, NEW c \in Client, NEW d \in Fd, Unmap(c, d)
  PROVE  IInv'
  <1>1. TypeOK'
    BY FileIds DEF IInv, TypeOK, Unmap, opentab, fdpages, request
  <1>2. FdNamesFile'
    BY DEF IInv, FdNamesFile, IsOpen, TypeOK, Unmap, opentab, fdpages, request
  <1>3. NewFdIsFresh'
    BY FileIds DEF IInv, NewFdIsFresh, TypeOK, Unmap, opentab, fdpages, request, OpenRight
  <1>4. NobodyForgotten' /\ EntryIds' /\ OpenRight' /\ FileRight' /\ AnswerRight' /\ ClientRight'
    BY DEF IInv, NobodyForgotten, EntryIds, OpenRight, OpenReq, FileRight, AnswerRight, ClientRight,
           Unmap, opentab, fdpages, request
  <1> QED BY <1>1, <1>2, <1>3, <1>4 DEF IInv

LEMMA DupStep ==
  ASSUME IInv, NEW c \in Client, NEW old \in Fd, NEW new \in Fd, Dup(c, old, new)
  PROVE  IInv'
  <1>1. TypeOK'
    BY FileIds DEF IInv, TypeOK, Dup, InUser, IsOpen, opentab, fdpages, request
  <1>2. FdNamesFile'
    BY DEF IInv, FdNamesFile, IsOpen, TypeOK, Dup, InUser, opentab, fdpages, request
  <1>3. NewFdIsFresh'
    BY DEF IInv, NewFdIsFresh, TypeOK, Dup, InUser, IsOpen, opentab, fdpages, request
  <1>4. FileRight'
    BY OpsAssumption, FileIds DEF IInv, FileRight, TypeOK, Dup, InUser, IsOpen, opentab, fdpages, request, Requests, OnFile
  <1>5. NobodyForgotten' /\ EntryIds' /\ OpenRight' /\ AnswerRight' /\ ClientRight'
    BY DEF IInv, NobodyForgotten, EntryIds, OpenRight, OpenReq, AnswerRight, ClientRight, Dup, InUser, IsOpen, opentab, fdpages, request
  <1> QED BY <1>1, <1>2, <1>3, <1>4, <1>5 DEF IInv

LEMMA SeekStep ==
  ASSUME IInv, NEW c \in Client, NEW d \in Fd, NEW offset \in Offset, Seek(c, d, offset)
  PROVE  IInv'
  <1>1. TypeOK'
    BY FileIds DEF IInv, TypeOK, Seek, InUser, IsOpen, clients, opentab, request
  <1>2. NewFdIsFresh'
    BY DEF IInv, NewFdIsFresh, TypeOK, Seek, InUser, IsOpen, clients, opentab, request
  <1>3. FileRight'
    BY BoundAssumption, FileIds DEF IInv, FileRight, TypeOK, Seek, InUser, IsOpen, clients, opentab, request, Offset
  <1>4. FdNamesFile' /\ NobodyForgotten' /\ EntryIds' /\ OpenRight' /\ AnswerRight' /\ ClientRight'
    BY DEF IInv, FdNamesFile, IsOpen, NobodyForgotten, EntryIds, OpenRight, OpenReq, AnswerRight, ClientRight, Seek, InUser, clients, opentab, request
  <1> QED BY <1>1, <1>2, <1>3, <1>4 DEF IInv

LEMMA ForkStep ==
  ASSUME IInv, NEW c \in Client, NEW child \in Client, Fork(c, child)
  PROVE  IInv'
  <1>1. TypeOK'
    BY FileIds DEF IInv, TypeOK, Fork, InUser, opentab, fdpages, request
  <1>2. FdNamesFile'
    BY DEF IInv, FdNamesFile, IsOpen, TypeOK, Fork, InUser, opentab, fdpages, request
  <1>3. NewFdIsFresh'
    BY DEF IInv, NewFdIsFresh, TypeOK, Fork, InUser, opentab, fdpages, request
  <1>4. NobodyForgotten'
    BY DEF IInv, NobodyForgotten, TypeOK, Fork, InUser, opentab, fdpages, request, ClientRight
  <1>5. FileRight'
    BY OpsAssumption, FileIds DEF IInv, FileRight, TypeOK, Fork, InUser, opentab, fdpages, request, ClientRight
  <1>6. ClientRight'
    BY DEF IInv, ClientRight, TypeOK, Fork, InUser, opentab, fdpages, request
  <1>7. EntryIds' /\ OpenRight' /\ AnswerRight'
    BY DEF IInv, EntryIds, OpenRight, OpenReq, AnswerRight, Fork, InUser, opentab, fdpages, request
  <1> QED BY <1>1, <1>2, <1>3, <1>4, <1>5, <1>6, <1>7 DEF IInv

LEMMA DieStep ==
  ASSUME IInv, NEW c \in Client, Die(c)
  PROVE  IInv'
  <1>1. TypeOK'
    BY FileIds DEF IInv, TypeOK, Die, opentab, fdpages, request
  <1>2. FdNamesFile'
    BY DEF IInv, FdNamesFile, IsOpen, TypeOK, Die, opentab, fdpages, request
  <1>3. NewFdIsFresh'
    BY FileIds DEF IInv, NewFdIsFresh, TypeOK, Die, opentab, fdpages, request, OpenRight
  <1>4. NobodyForgotten'
    BY DEF IInv, NobodyForgotten, TypeOK, Die, opentab, fdpages, request
  <1>5. FileRight'
    BY OpsAssumption, FileIds DEF IInv, FileRight, TypeOK, Die, opentab, fdpages, request, Requests, OnFile
  <1>6. ClientRight'
    BY DEF IInv, ClientRight, TypeOK, Die, opentab, fdpages, request
  <1>7. EntryIds' /\ OpenRight' /\ AnswerRight'
    BY DEF IInv, EntryIds, OpenRight, OpenReq, AnswerRight, Die, opentab, fdpages, request
  <1> QED BY <1>1, <1>2, <1>3, <1>4, <1>5, <1>6, <1>7 DEF IInv

LEMMA OpenfileAllocStep ==
  ASSUME IInv, OpenfileAlloc
  PROVE  IInv'
  <1>1. TypeOK'
    BY FileIds, BoundAssumption DEF IInv, TypeOK, OpenfileAlloc, clients, request, OpenRight, Offset
  <1>2. FdNamesFile'
    BY NobodyHas DEF IInv, FdNamesFile, IsOpen, TypeOK, OpenfileAlloc, clients, request
  <1>3. NewFdIsFresh'
    BY NobodyHas DEF IInv, NewFdIsFresh, TypeOK, OpenfileAlloc, clients, request
  <1>4. NobodyForgotten'
    BY DEF IInv, NobodyForgotten, TypeOK, OpenfileAlloc, clients, request
  <1>5. EntryIds'
    BY ModAdd, FileIds DEF IInv, EntryIds, TypeOK, OpenfileAlloc, clients, request
  <1>6. OpenRight'
    BY OpsAssumption DEF IInv, OpenRight, OpenReq, TypeOK, OpenfileAlloc, clients, request, Requests
  <1>7. FileRight'
    BY OpsAssumption, FileIds DEF IInv, FileRight, TypeOK, OpenfileAlloc, clients, request, Requests, OnFile
  <1>8. AnswerRight'
    BY DEF IInv, AnswerRight, TypeOK, OpenfileAlloc, clients, request
  <1>9. ClientRight'
    BY DEF IInv, ClientRight, TypeOK, OpenfileAlloc, clients, request
  <1> QED BY <1>1, <1>2, <1>3, <1>4, <1>5, <1>6, <1>7, <1>8, <1>9 DEF IInv

LEMMA OpenfileInUseStep ==
  ASSUME IInv, OpenfileInUse
  PROVE  IInv'
  <1>1. TypeOK'
    BY FileIds DEF IInv, TypeOK, OpenfileInUse, clients, opentab, fdpages
  <1>2. NewFdIsFresh'
    BY DEF IInv, NewFdIsFresh, TypeOK, OpenfileInUse, clients, opentab, fdpages
  <1>3. OpenRight'
    BY OpsAssumption DEF IInv, OpenRight, OpenReq, TypeOK, OpenfileInUse, clients, opentab, fdpages, Requests
  <1>4. FileRight'
    BY OpsAssumption, FileIds DEF IInv, FileRight, TypeOK, OpenfileInUse, clients, opentab, fdpages, Requests, OnFile
  <1>5. FdNamesFile' /\ NobodyForgotten' /\ EntryIds' /\ AnswerRight' /\ ClientRight'
    BY DEF IInv, FdNamesFile, IsOpen, NobodyForgotten, EntryIds, AnswerRight, ClientRight, OpenfileInUse, clients, opentab, fdpages
  <1> QED BY <1>1, <1>2, <1>3, <1>4, <1>5 DEF IInv

\* A handler that has its result, which is not that of an open.
LEMMA ReplyStep ==
  ASSUME IInv, serving \in {"alloc", "open", "lookup", "work"},
         NEW a \in Answers, a # "ok" \/ req.op # "open",
         Reply(a), UNCHANGED <<clients, opentab, fdpages, whom, req, entry, moved>>
  PROVE  IInv'
  <1>1. TypeOK'
    BY DEF IInv, TypeOK, Reply, clients, opentab, fdpages
  <1>2. FdNamesFile' /\ NewFdIsFresh' /\ NobodyForgotten'
    BY DEF IInv, FdNamesFile, IsOpen, NewFdIsFresh, NobodyForgotten, Reply, clients, opentab, fdpages
  <1>3. EntryIds' /\ OpenRight' /\ FileRight' /\ AnswerRight' /\ ClientRight'
    BY DEF IInv, EntryIds, OpenRight, FileRight, AnswerRight, ClientRight, Reply, clients, opentab, fdpages
  <1> QED BY <1>1, <1>2, <1>3 DEF IInv

LEMMA ServeOpenStep ==
  ASSUME IInv, ServeOpen
  PROVE  IInv'
  <1>1. TypeOK'
    BY FileIds DEF IInv, TypeOK, ServeOpen, Reply, clients, Answers, OpenRight, OpenReq
  <1>2. FdNamesFile'
    BY DEF IInv, FdNamesFile, IsOpen, TypeOK, ServeOpen, Reply, clients, NewFdIsFresh
  <1>3. NewFdIsFresh'
    BY DEF IInv, NewFdIsFresh, TypeOK, ServeOpen, Reply, clients
  <1>4. NobodyForgotten'
    BY DEF IInv, NobodyForgotten, TypeOK, ServeOpen, Reply, clients
  <1>5. OpenRight'
    BY OpsAssumption DEF IInv, OpenRight, OpenReq, TypeOK, ServeOpen, Reply, clients, Requests
  <1>6. FileRight'
    BY OpsAssumption, FileIds DEF IInv, FileRight, TypeOK, ServeOpen, Reply, clients, Requests, OnFile
  <1>7. AnswerRight'
    BY DEF IInv, AnswerRight, TypeOK, ServeOpen, Reply, clients
  <1>8. ClientRight'
    BY DEF IInv, ClientRight, TypeOK, ServeOpen, Reply, clients
  <1>9. EntryIds'
    BY DEF IInv, EntryIds, ServeOpen, Reply, clients
  <1> QED BY <1>1, <1>2, <1>3, <1>4, <1>5, <1>6, <1>7, <1>8, <1>9 DEF IInv

LEMMA OpenfileLookupStep ==
  ASSUME IInv, OpenfileLookup
  PROVE  IInv'
  <1>1. req.op # "open"
    BY OpsAssumption DEF IInv, FileRight, OnFile, OpenfileLookup
  <1>2. CASE Reply("E_INVAL") \/ Reply("ok")
    BY <1>1, <1>2, ReplyStep DEF OpenfileLookup, Answers
  <1>3. CASE serving' \in {"transfer", "work"} /\ answer' = answer
    <2> USE <1>1, <1>3 DEF OpenfileLookup, clients, opentab, fdpages
    <2>1. TypeOK'
      BY DEF IInv, TypeOK
    <2>2. FdNamesFile' /\ NewFdIsFresh' /\ NobodyForgotten'
      BY DEF IInv, FdNamesFile, IsOpen, NewFdIsFresh, NobodyForgotten
    <2>3. EntryIds' /\ OpenRight' /\ FileRight' /\ AnswerRight' /\ ClientRight'
      BY DEF IInv, EntryIds, OpenRight, FileRight, AnswerRight, ClientRight
    <2> QED BY <2>1, <2>2, <2>3 DEF IInv
  <1> QED BY <1>2, <1>3 DEF OpenfileLookup

LEMMA TransferStep ==
  ASSUME IInv, Transfer
  PROVE  IInv'
  <1>1. TypeOK'
    BY FileIds DEF IInv, TypeOK, Transfer, clients, opentab, fdpages
  <1>2. FdNamesFile'
    BY DEF IInv, FdNamesFile, IsOpen, TypeOK, Transfer, clients, opentab, fdpages
  <1>3. NewFdIsFresh'
    BY DEF IInv, NewFdIsFresh, TypeOK, Transfer, clients, opentab, fdpages
  <1>4. NobodyForgotten'
    BY DEF IInv, NobodyForgotten, TypeOK, Transfer, clients, opentab, fdpages
  <1>5. OpenRight'
    BY OpsAssumption DEF IInv, OpenRight, OpenReq, TypeOK, Transfer, clients, opentab, fdpages, Requests
  <1>6. FileRight'
    BY OpsAssumption, FileIds DEF IInv, FileRight, TypeOK, Transfer, clients, opentab, fdpages, Requests, OnFile
  <1>7. AnswerRight'
    BY DEF IInv, AnswerRight, TypeOK, Transfer, clients, opentab, fdpages
  <1>8. ClientRight'
    BY DEF IInv, ClientRight, TypeOK, Transfer, clients, opentab, fdpages
  <1>9. EntryIds'
    BY DEF IInv, EntryIds, Transfer, clients, opentab, fdpages
  <1> QED BY <1>1, <1>2, <1>3, <1>4, <1>5, <1>6, <1>7, <1>8, <1>9 DEF IInv

LEMMA AdvanceStep ==
  ASSUME IInv, Advance
  PROVE  IInv'
  <1>1. TypeOK'
    BY FileIds DEF IInv, TypeOK, Advance, Reply, clients, opentab, Answers, FileRight
  <1>2. FdNamesFile'
    BY DEF IInv, FdNamesFile, IsOpen, TypeOK, Advance, Reply, clients, opentab
  <1>3. NewFdIsFresh'
    BY OpsAssumption DEF IInv, NewFdIsFresh, TypeOK, Advance, Reply, clients, opentab, FileRight, OnFile, Requests
  <1>4. NobodyForgotten'
    BY DEF IInv, NobodyForgotten, TypeOK, Advance, Reply, clients, opentab
  <1>5. OpenRight'
    BY OpsAssumption DEF IInv, OpenRight, OpenReq, TypeOK, Advance, Reply, clients, opentab, FileRight, OnFile, Requests
  <1>6. FileRight'
    BY OpsAssumption, FileIds DEF IInv, FileRight, TypeOK, Advance, Reply, clients, opentab, Requests, OnFile
  <1>7. AnswerRight'
    BY DEF IInv, AnswerRight, TypeOK, Advance, Reply, clients, opentab
  <1>8. ClientRight'
    BY DEF IInv, ClientRight, TypeOK, Advance, Reply, clients, opentab
  <1>9. EntryIds'
    BY DEF IInv, EntryIds, Advance, Reply, clients, opentab
  <1> QED BY <1>1, <1>2, <1>3, <1>4, <1>5, <1>6, <1>7, <1>8, <1>9 DEF IInv

LEMMA ReplySentStep ==
  ASSUME IInv, ReplySent
  PROVE  IInv'
  <1>1. TypeOK'
    <2>0. /\ at' \in [Client -> {"user", "sent", "reply", "unmap"}]
          /\ call' \in [Client -> Fd \cup {NoFd}]
      BY DEF IInv, TypeOK, ReplySent
    <2>1. CASE req.op = "open" /\ answer = "ok"
      <3>1. entry \in Entry /\ req.file \in File
        BY <2>1 DEF IInv, OpenRight, OpenReq, TypeOK, ReplySent
      <3>2. /\ fds' \in [Client -> [Fd -> Entry \cup {NoEntry}]]
            /\ named' \in [Client -> [Fd -> File \cup {NoFile}]]
        <4> DEFINE e == call[whom]
        <4>1. /\ fds' = [fds EXCEPT ![whom] = [fds[whom] EXCEPT ![e] = entry]]
              /\ named' = [named EXCEPT ![whom] = [named[whom] EXCEPT ![e] = req.file]]
          BY <2>1 DEF ReplySent
        <4>2. /\ [fds[whom] EXCEPT ![e] = entry] \in [Fd -> Entry \cup {NoEntry}]
              /\ [named[whom] EXCEPT ![e] = req.file] \in [Fd -> File \cup {NoFile}]
          BY <3>1 DEF IInv, TypeOK
        <4> QED BY <4>1, <4>2 DEF IInv, TypeOK
      <3> QED BY <3>2, <2>0 DEF IInv, TypeOK, ReplySent, opentab, fdpages, request
    <2>2. CASE ~(req.op = "open" /\ answer = "ok")
      BY <2>0, <2>2 DEF IInv, TypeOK, ReplySent, opentab, fdpages, request
    <2> QED BY <2>1, <2>2
  <1>2. FdNamesFile'
    <2>1. CASE req.op = "open" /\ answer = "ok"
      <3> SUFFICES ASSUME NEW c \in Client, NEW d \in Fd, IsOpen(c, d)'
                   PROVE  LET i == fds'[c][d]
                          IN  i \in o_mapped /\ fd_id[i] = o_fileid[i] /\ o_file[i] = named'[c][d]
        BY DEF FdNamesFile, ReplySent, opentab, fdpages, request
      <3>1. CASE c = whom /\ d = call[whom]
        BY <2>1, <3>1 DEF IInv, OpenRight, TypeOK, ReplySent
      <3>2. CASE ~(c = whom /\ d = call[whom])
        BY <2>1, <3>2 DEF IInv, FdNamesFile, IsOpen, TypeOK, ReplySent
      <3> QED BY <3>1, <3>2
    <2>2. CASE ~(req.op = "open" /\ answer = "ok")
      BY <2>2 DEF IInv, FdNamesFile, IsOpen, TypeOK, ReplySent, opentab, fdpages, request
    <2> QED BY <2>1, <2>2
  <1>3. NewFdIsFresh'
    BY DEF IInv, NewFdIsFresh, TypeOK, ReplySent, opentab, fdpages, request
  <1>4. NobodyForgotten'
    BY DEF IInv, NobodyForgotten, TypeOK, ReplySent, opentab, fdpages, request
  <1>5. OpenRight'
    BY OpsAssumption DEF IInv, OpenRight, OpenReq, TypeOK, ReplySent, opentab, fdpages, request, Requests
  <1>6. FileRight'
    BY OpsAssumption, FileIds DEF IInv, FileRight, TypeOK, ReplySent, opentab, fdpages, request, Requests, OnFile
  <1>7. AnswerRight'
    BY DEF IInv, AnswerRight, TypeOK, ReplySent, opentab, fdpages, request
  <1>8. ClientRight'
    BY DEF IInv, ClientRight, TypeOK, ReplySent, opentab, fdpages, request
  <1>9. EntryIds'
    BY DEF IInv, EntryIds, ReplySent, opentab, fdpages, request
  <1> QED BY <1>1, <1>2, <1>3, <1>4, <1>5, <1>6, <1>7, <1>8, <1>9 DEF IInv

LEMMA PanicStep ==
  ASSUME IInv, serving \notin {"recv", "unmap"}, Panic
  PROVE  IInv'
  <1>1. TypeOK'
    BY FileIds, BoundAssumption DEF IInv, TypeOK, Panic, clients, opentab, fdpages, Requests, Idle, Offset, Answers
  <1>2. FdNamesFile' /\ NewFdIsFresh' /\ NobodyForgotten'
    BY DEF IInv, FdNamesFile, IsOpen, NewFdIsFresh, NobodyForgotten, Panic, clients, opentab, fdpages
  <1>3. EntryIds' /\ OpenRight' /\ FileRight' /\ AnswerRight' /\ ClientRight'
    BY DEF IInv, EntryIds, OpenRight, FileRight, AnswerRight, ClientRight, Panic, clients, opentab, fdpages
  <1> QED BY <1>1, <1>2, <1>3 DEF IInv

LEMMA UnmapRequestStep ==
  ASSUME IInv, UnmapRequest
  PROVE  IInv'
  <1>1. TypeOK'
    BY ClientAssumption, BoundAssumption DEF IInv, TypeOK, UnmapRequest, clients, opentab, fdpages, Requests, Idle, Offset, Answers
  <1>2. FdNamesFile'
    BY DEF IInv, FdNamesFile, IsOpen, TypeOK, UnmapRequest, clients, opentab, fdpages
  <1>3. NewFdIsFresh'
    BY DEF IInv, NewFdIsFresh, TypeOK, UnmapRequest, clients, opentab, fdpages
  <1>4. NobodyForgotten'
    BY DEF IInv, NobodyForgotten, TypeOK, UnmapRequest, clients, opentab, fdpages
  <1>5. OpenRight'
    BY OpsAssumption DEF IInv, OpenRight, OpenReq, TypeOK, UnmapRequest, clients, opentab, fdpages, Requests
  <1>6. FileRight'
    BY OpsAssumption, FileIds DEF IInv, FileRight, TypeOK, UnmapRequest, clients, opentab, fdpages, Requests, OnFile
  <1>7. AnswerRight'
    BY DEF IInv, AnswerRight, TypeOK, UnmapRequest, clients, opentab, fdpages
  <1>8. ClientRight'
    BY DEF IInv, ClientRight, TypeOK, UnmapRequest, clients, opentab, fdpages
  <1>9. EntryIds'
    BY DEF IInv, EntryIds, UnmapRequest, clients, opentab, fdpages
  <1> QED BY <1>1, <1>2, <1>3, <1>4, <1>5, <1>6, <1>7, <1>8, <1>9 DEF IInv

-----------------------------------------------------------------------------
(***************************************************************************)
(* The theorems.                                                           *)
(***************************************************************************)
LEMMA InitInv == Init => IInv
  <1> SUFFICES ASSUME Init PROVE IInv
    OBVIOUS
  <1>1. TypeOK
    BY FileIds, ClientAssumption, BoundAssumption DEF Init, TypeOK, Requests, Idle, Offset, Answers
  <1>2. FdNamesFile /\ NewFdIsFresh /\ NobodyForgotten
    BY DEF Init, FdNamesFile, IsOpen, NewFdIsFresh, NobodyForgotten
  <1>3. EntryIds
    BY FileIds DEF Init, EntryIds
  <1>4. OpenRight /\ FileRight /\ AnswerRight /\ ClientRight
    BY DEF Init, OpenRight, FileRight, AnswerRight, ClientRight
  <1> QED BY <1>1, <1>2, <1>3, <1>4 DEF IInv

LEMMA StutterInv ==
  ASSUME IInv, UNCHANGED vars
  PROVE  IInv'
  <1>1. TypeOK'
    BY DEF IInv, TypeOK, vars, clients, opentab, fdpages, request
  <1>2. FdNamesFile' /\ NewFdIsFresh' /\ NobodyForgotten'
    BY DEF IInv, FdNamesFile, IsOpen, NewFdIsFresh, NobodyForgotten,
           vars, clients, opentab, fdpages, request
  <1>3. EntryIds' /\ OpenRight' /\ FileRight' /\ AnswerRight' /\ ClientRight'
    BY DEF IInv, EntryIds, OpenRight, OpenReq, FileRight, AnswerRight, ClientRight,
           vars, clients, opentab, fdpages, request
  <1> QED BY <1>1, <1>2, <1>3 DEF IInv

LEMMA NextInv ==
  ASSUME IInv, [Next]_vars
  PROVE  IInv'
  <1>1. CASE \E c \in Client :
               \/ Receive(c) \/ UnmapFd(c) \/ Sync(c) \/ Die(c)
               \/ \E child \in Client : Fork(c, child)
               \/ \E op \in OnFile, id \in FileId : OnCopy(c, op, id)
    BY <1>1, ReceiveStep, UnmapFdStep, SyncStep, DieStep, ForkStep, OnCopyStep
  <1>2. CASE \E c \in Client : \E d \in Fd :
               \/ Unmap(c, d)
               \/ \E f \in File : Open(c, d, f)
               \/ \E op \in OnFile : OnDescriptor(c, d, op)
               \/ \E new \in Fd : Dup(c, d, new)
               \/ \E offset \in Offset : Seek(c, d, offset)
    BY <1>2, OpenStep, OnDescriptorStep, UnmapStep, DupStep, SeekStep
  <1>3. CASE Server
    <2>1. CASE OpenfileNone \/ OpenfileNoMem \/ ServeOpenFails
      BY <2>1, ReplyStep DEF OpenfileNone, OpenfileNoMem, ServeOpenFails, Answers
    <2>2. CASE FileWork
      BY <2>2, ReplyStep DEF FileWork, Answers, IInv, FileRight
    <2>3. CASE FileSystemPanics \/ ReplyPanics
      BY <2>3, PanicStep DEF FileSystemPanics, ReplyPanics
    <2> QED
      BY <1>3, <2>1, <2>2, <2>3, OpenfileAllocStep, OpenfileInUseStep, ServeOpenStep,
         OpenfileLookupStep, TransferStep, AdvanceStep, ReplySentStep, UnmapRequestStep
      DEF Server
  <1>4. CASE UNCHANGED vars
    BY <1>4, StutterInv
  <1> QED BY <1>1, <1>2, <1>3, <1>4 DEF Next

LEMMA Invariance == Spec => []IInv
  BY InitInv, NextInv, PTL DEF Spec

\* Every variable keeps to its type: the server's loop over opentab[] ends at
\* MAXOPEN, and no offset passes the bound.
THEOREM TypeCorrect == Spec => []TypeOK
  <1>1. IInv => TypeOK
    BY DEF IInv
  <1> QED BY <1>1, Invariance, PTL

\* A descriptor that is open, however it was passed on, names the file it was
\* opened on: openfile_alloc never gives its entry to another.
THEOREM DescriptorsNameFiles == Spec => []FdNamesFile
  <1>1. IInv => FdNamesFile
    BY DEF IInv
  <1> QED BY <1>1, Invariance, PTL

\* What serve_open gives out is nobody else's and begins at offset 0.
THEOREM NewIsFresh == Spec => []NewFdIsFresh
  <1>1. IInv => NewFdIsFresh
    BY DEF IInv
  <1> QED BY <1>1, Invariance, PTL

\* Whether an entry's page is mapped more often than once, and its last id,
\* tell openfile_lookup() whether anybody has a descriptor of that use of it.
LEMMA FoundMeansOpen ==
  ASSUME IInv, serving = "lookup"
  PROVE  Found <=> \E c \in Client, d \in Fd : IsOpen(c, d) /\ fd_id[fds[c][d]] = req.id
  <1>1. entry \in Entry /\ entry = req.id % MAXOPEN
    BY DEF IInv, FileRight
  <1>2. ASSUME Found
        PROVE  \E c \in Client, d \in Fd : IsOpen(c, d) /\ fd_id[fds[c][d]] = req.id
    <2>1. ~(pageref(entry) <= 1) /\ o_fileid[entry] = req.id
      BY <1>1, <1>2, HoldersFinite DEF Found, pageref
    <2>2. Holders(entry) # {}
      BY <1>1, <2>1, HoldersFinite DEF pageref
    <2>3. PICK h \in Client \X Fd : fds[h[1]][h[2]] = entry
      BY <2>2 DEF Holders
    <2> DEFINE c == h[1]
               d == h[2]
    <2>4. c \in Client /\ d \in Fd /\ fds[c][d] = entry
      BY <2>3
    <2> HIDE DEF c, d
    <2>5. IsOpen(c, d)
      BY <1>1, <2>4, FileIds DEF IsOpen
    <2>6. fd_id[entry] = o_fileid[entry]
      BY <2>4, <2>5 DEF IInv, FdNamesFile
    <2> QED BY <2>1, <2>4, <2>5, <2>6
  <1>3. ASSUME NEW c \in Client, NEW d \in Fd, IsOpen(c, d), fd_id[fds[c][d]] = req.id
        PROVE  Found
    <2> DEFINE i == fds[c][d]
    <2>1. i \in Entry /\ i \in o_mapped /\ o_fileid[i] = req.id
      BY <1>3 DEF IInv, TypeOK, FdNamesFile, IsOpen
    <2>2. o_fileid[i] % MAXOPEN = i
      BY <2>1 DEF IInv, EntryIds
    <2>3. i = entry
      BY <1>1, <2>1, <2>2
    <2>4. pageref(i) > 1
      BY <2>1, SomebodyHas
    <2> QED BY <2>1, <2>3, <2>4 DEF Found
  <1> QED BY <1>2, <1>3

\* openfile_lookup refuses a request exactly when nobody has a descriptor of
\* that use of its entry any more, whoever it is that asks.
THEOREM RefusalsJustified == Spec => RefusedExactlyWhenStale
  <1> DEFINE Stale == \A c \in Client, d \in Fd : IsOpen(c, d) => fd_id[fds[c][d]] # req.id
  <1>1. IInv /\ [Next]_vars =>
          [serving = "lookup" /\ serving' # "lookup" => (answer' = "E_INVAL" <=> Stale)]_vars
    <2> SUFFICES ASSUME IInv, Next, serving = "lookup", serving' # "lookup"
                 PROVE  answer' = "E_INVAL" <=> Stale
      OBVIOUS
    <2>1. OpenfileLookup
      BY DEF Next, Receive, UnmapFd, Sync, Die, Unmap, Open, OnDescriptor, OnCopy, Fsipc, Dup,
             Seek, Fork, Server, OpenfileAlloc, OpenfileInUse, OpenfileNone, OpenfileNoMem,
             ServeOpen, ServeOpenFails, FileWork, Transfer, Advance, FileSystemPanics,
             ReplySent, ReplyPanics, UnmapRequest
    <2>2. Found <=> ~Stale
      BY FoundMeansOpen
    <2>3. answer = "none"
      BY DEF IInv, AnswerRight
    <2> HIDE DEF Stale
    <2> QED BY <2>1, <2>2, <2>3 DEF OpenfileLookup, Reply
  <1> QED BY <1>1, Invariance, PTL DEF Spec, RefusedExactlyWhenStale

\* A living client that waits is the one the server works for, and the one
\* over whose request it panicked, if it has.
THEOREM NobodyIsForgotten == Spec => []NobodyForgotten
  <1>1. IInv => NobodyForgotten
    BY DEF IInv
  <1> QED BY <1>1, Invariance, PTL
=============================================================================
