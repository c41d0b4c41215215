------------------------------- MODULE FsServ -------------------------------
(***************************************************************************)
(* The file server's table of open files and its clients: fs/serv.c,       *)
(* lib/file.c and what lib/fd.c does with a file's descriptor.  An entry   *)
(* of opentab[] has one page, its Fd page, which the server maps for ever  *)
(* and shares with every client that has the file open; how often that     *)
(* page is mapped is all the server knows of its clients.                  *)
(*                                                                         *)
(* The server does one request after the other, on a CPU of its own:       *)
(* between any two of its steps clients share descriptors, drop them, move *)
(* the offset in the Fd page, or die.  A message is one step (Ipc); what   *)
(* the file system does with a file is FsDisk: here an open may fail, a    *)
(* transfer may be as short as it likes, and each may panic the server.    *)
(***************************************************************************)
EXTENDS Naturals, FiniteSets

CONSTANTS
  Client, Root,   \* environments, and the one there is at the start
  Fd, NoFd,       \* descriptor numbers of a client
  File, NoFile,
  Transfers,      \* of "read" and "write", which differ in what FsDisk does,
  Others,         \* of "set_size" and "stat": those clients make use of
  MAXOPEN,
  MaxUse,         \* bound: how often an entry of opentab[] is used
  MaxOffset       \* bound: the largest offset

ASSUME ClientAssumption == Root \in Client /\ IsFiniteSet(Client)
ASSUME FdAssumption     == Fd \subseteq Nat /\ IsFiniteSet(Fd) /\ NoFd \notin Fd
ASSUME FileAssumption   == NoFile \notin File
ASSUME OpsAssumption    == Transfers \subseteq {"read", "write"} /\ Others \subseteq {"set_size", "stat"}
ASSUME BoundAssumption  == MAXOPEN \in Nat \ {0} /\ MaxUse \in Nat \ {0} /\ MaxOffset \in Nat

Entry   == 0 .. MAXOPEN - 1
NoEntry == MAXOPEN
FileId  == 0 .. MaxUse * MAXOPEN + MAXOPEN - 1
Offset  == 0 .. MaxOffset

VARIABLES
  status,     \* of a client: "free", "live" or "dead"
  at,         \* where it is: in its "user" code, has "sent" a request, waits
              \* for the "reply", or has it and must "unmap" what it closes
  call,       \* the descriptor its call is about
  fds,        \* the entry whose Fd page it has mapped as a descriptor
  named,      \* ghost: the file a descriptor was opened on
  fsipcbuf,   \* the clients whose request page is writable, not copy-on-write
  o_mapped,   \* the entries whose Fd page the server has allocated
  o_fileid,   \* opentab[]
  o_file,
  fd_id,      \* what is in an entry's Fd page
  fd_offset,
  serving,    \* where the server is; "work" is the file system's part of a
              \* request that is neither an open nor a transfer
  whom, req,  \* whose request it serves, and what that says
  entry,      \* the entry it looks at
  moved,      \* what the transfer amounted to
  answer      \* what it will reply

clients == <<status, at, call, fds, named, fsipcbuf>>
opentab == <<o_mapped, o_fileid, o_file>>
fdpages == <<fd_id, fd_offset>>
request == <<whom, req, entry, moved, answer>>
vars == <<clients, opentab, fdpages, serving, request>>

OnFile   == Transfers \cup Others \cup {"flush"}
Requests == [op : {"open"}, file : File] \cup [op : OnFile, id : FileId] \cup [op : {"sync", "none"}]
Idle     == [op |-> "none"]
Answers  == {"none", "ok", "E_INVAL", "E_MAX_OPEN", "E_OTHER"}

TypeOK ==
  /\ status \in [Client -> {"free", "live", "dead"}]
  /\ at \in [Client -> {"user", "sent", "reply", "unmap"}]
  /\ call \in [Client -> Fd \cup {NoFd}]
  /\ fds \in [Client -> [Fd -> Entry \cup {NoEntry}]]
  /\ named \in [Client -> [Fd -> File \cup {NoFile}]]
  /\ fsipcbuf \subseteq Client
  /\ o_mapped \subseteq Entry
  /\ o_fileid \in [Entry -> FileId]
  /\ o_file \in [Entry -> File \cup {NoFile}]
  /\ fd_id \in [Entry -> FileId]
  /\ fd_offset \in [Entry -> Offset]
  /\ serving \in {"recv", "alloc", "open", "lookup", "work", "transfer", "advance",
                 "reply", "unmap", "panicked"}
  /\ whom \in Client
  /\ req \in Requests
  /\ entry \in Entry \cup {NoEntry}
  /\ moved \in Offset
  /\ answer \in Answers

\* serve_init
Init ==
  /\ status = [c \in Client |-> IF c = Root THEN "live" ELSE "free"]
  /\ at = [c \in Client |-> "user"]
  /\ call = [c \in Client |-> NoFd]
  /\ fds = [c \in Client |-> [d \in Fd |-> NoEntry]]
  /\ named = [c \in Client |-> [d \in Fd |-> NoFile]]
  /\ fsipcbuf = {Root}
  /\ o_mapped = {}
  /\ o_fileid = [i \in Entry |-> i]
  /\ o_file = [i \in Entry |-> NoFile]
  /\ fd_id = [i \in Entry |-> 0]
  /\ fd_offset = [i \in Entry |-> 0]
  /\ serving = "recv"
  /\ whom = Root /\ req = Idle /\ entry = NoEntry /\ moved = 0 /\ answer = "none"

Holders(i)  == {h \in Client \X Fd : fds[h[1]][h[2]] = i}
pageref(i)  == Cardinality(Holders(i)) + (IF i \in o_mapped THEN 1 ELSE 0)

-----------------------------------------------------------------------------
(***************************************************************************)
(* Clients.                                                                *)
(***************************************************************************)
InUser(c)  == status[c] = "live" /\ at[c] = "user"
IsOpen(c, d) == fds[c][d] # NoEntry

\* ipc_send() of fsipc(), when it gets through.  The request page is sent
\* writable: that it is writable, the client has just written to it.  (If the
\* server has no memory to map it, the client panics: it goes no further.)
Fsipc(c, d, r) ==
  /\ InUser(c) /\ serving = "recv"
  /\ at' = [at EXCEPT ![c] = "sent"]
  /\ call' = [call EXCEPT ![c] = d]
  /\ serving' = CASE r.op = "open" -> "alloc" [] r.op \in OnFile -> "lookup" [] OTHER -> "work"
  /\ whom' = c /\ req' = r
  /\ entry' = IF r.op = "open" THEN 0 ELSE IF r.op \in OnFile THEN r.id % MAXOPEN ELSE NoEntry
  /\ answer' = "none"
  /\ UNCHANGED <<status, fds, named, opentab, fdpages, moved>>

\* open(): fd_alloc() takes the first descriptor not mapped.
Open(c, d, f) ==
  /\ ~IsOpen(c, d) /\ \A e \in Fd : e < d => IsOpen(c, e)
  /\ \A i \in Entry : o_fileid[i] + MAXOPEN \in FileId
  /\ Fsipc(c, d, [op |-> "open", file |-> f])
  /\ fsipcbuf' = fsipcbuf \cup {c}

\* read(), write(), ftruncate(), fstat() and, as the first half of close(),
\* devfile_flush().
OnDescriptor(c, d, op) ==
  /\ IsOpen(c, d)
  /\ Fsipc(c, d, [op |-> op, id |-> fd_id[fds[c][d]]])
  /\ fsipcbuf' = fsipcbuf \cup {c}

\* The same through a copy of an Fd page that is not, or not any more, mapped
\* here, as user/testfile.c does: any id that was ever given out.
OnCopy(c, op, id) ==
  /\ MAXOPEN <= id /\ id <= o_fileid[id % MAXOPEN]
  /\ Fsipc(c, NoFd, [op |-> op, id |-> id])
  /\ fsipcbuf' = fsipcbuf \cup {c}

\* sync() writes nothing to the request page.  If it is not writable ipc_send()
\* panics, and the client goes no further until it is destroyed: Die.
Sync(c) ==
  /\ c \in fsipcbuf
  /\ Fsipc(c, NoFd, [op |-> "sync"])
  /\ UNCHANGED fsipcbuf

\* sys_ipc_recv of fsipc()
Receive(c) ==
  /\ status[c] = "live" /\ at[c] = "sent"
  /\ at' = [at EXCEPT ![c] = "reply"]
  /\ UNCHANGED <<status, call, fds, named, fsipcbuf, opentab, fdpages, serving, request>>

\* fd_close(), after devfile_flush()
UnmapFd(c) ==
  /\ status[c] = "live" /\ at[c] = "unmap"
  /\ at' = [at EXCEPT ![c] = "user"]
  /\ call' = [call EXCEPT ![c] = NoFd]
  /\ fds' = [fds EXCEPT ![c][call[c]] = NoEntry]
  /\ named' = [named EXCEPT ![c][call[c]] = NoFile]
  /\ UNCHANGED <<status, fsipcbuf, opentab, fdpages, serving, request>>

\* sys_page_unmap() of an Fd page, without flushing the file.
Unmap(c, d) ==
  /\ InUser(c) /\ IsOpen(c, d)
  /\ fds' = [fds EXCEPT ![c][d] = NoEntry]
  /\ named' = [named EXCEPT ![c][d] = NoFile]
  /\ UNCHANGED <<status, at, call, fsipcbuf, opentab, fdpages, serving, request>>

\* dup(), which has closed new before.
Dup(c, old, new) ==
  /\ InUser(c) /\ IsOpen(c, old) /\ ~IsOpen(c, new)
  /\ fds' = [fds EXCEPT ![c][new] = fds[c][old]]
  /\ named' = [named EXCEPT ![c][new] = named[c][old]]
  /\ UNCHANGED <<status, at, call, fsipcbuf, opentab, fdpages, serving, request>>

\* Bound: only backwards, or a transfer under way would pass MaxOffset.
Seek(c, d, offset) ==
  /\ InUser(c) /\ IsOpen(c, d) /\ offset < fd_offset[fds[c][d]]
  /\ fd_offset' = [fd_offset EXCEPT ![fds[c][d]] = offset]
  /\ UNCHANGED <<clients, opentab, fd_id, serving, request>>

\* fork() shares the descriptors; the request page of both becomes
\* copy-on-write (CowFork).
Fork(c, child) ==
  /\ InUser(c) /\ status[child] = "free"
  /\ status' = [status EXCEPT ![child] = "live"]
  /\ fds' = [fds EXCEPT ![child] = fds[c]]
  /\ named' = [named EXCEPT ![child] = named[c]]
  /\ fsipcbuf' = fsipcbuf \ {c, child}
  /\ UNCHANGED <<at, call, opentab, fdpages, serving, request>>

\* exit(), or destroyed by somebody else, in the middle of a call too.
Die(c) ==
  /\ status[c] = "live"
  /\ status' = [status EXCEPT ![c] = "dead"]
  /\ fds' = [fds EXCEPT ![c] = [d \in Fd |-> NoEntry]]
  /\ named' = [named EXCEPT ![c] = [d \in Fd |-> NoFile]]
  /\ fsipcbuf' = fsipcbuf \ {c}
  /\ at' = [at EXCEPT ![c] = "user"]
  /\ call' = [call EXCEPT ![c] = NoFd]
  /\ UNCHANGED <<opentab, fdpages, serving, request>>

-----------------------------------------------------------------------------
(***************************************************************************)
(* The server.                                                             *)
(***************************************************************************)
Reply(a) == serving' = "reply" /\ answer' = a

\* panic(): the server keeps its memory and serves nobody any more.  Who sends
\* to it tries again for ever, and who waits for its answer waits for ever.
Panic ==
  /\ serving' = "panicked"
  /\ req' = Idle /\ entry' = NoEntry /\ moved' = 0 /\ answer' = "none"
  /\ UNCHANGED <<clients, opentab, fdpages, whom>>

\* fs/bc.c: no memory for a block's page, an error of the disk, a block number
\* that is out of range or free.  A stat only reads what an open has read.
FileSystemPanics ==
  /\ serving \in {"open", "work", "transfer"}
  /\ Panic

\* openfile_alloc(), an entry after the other: unused if nobody but the server
\* maps its page, which is allocated the first time and cleared every time.
\* Mutant: an entry that one client still has counts as unused.
OpenfileAllocOneLeft ==
  /\ serving = "alloc" /\ entry \in Entry /\ pageref(entry) <= 2
  /\ o_mapped' = o_mapped \cup {entry}
  /\ o_fileid' = [o_fileid EXCEPT ![entry] = @ + MAXOPEN]
  /\ fd_id' = [fd_id EXCEPT ![entry] = 0]
  /\ fd_offset' = [fd_offset EXCEPT ![entry] = 0]
  /\ serving' = "open"
  /\ UNCHANGED <<clients, o_file, request>>

\* Mutant: the page is cleared only where it is allocated.
OpenfileAllocUncleared ==
  /\ serving = "alloc" /\ entry \in Entry /\ pageref(entry) <= 1
  /\ o_mapped' = o_mapped \cup {entry}
  /\ o_fileid' = [o_fileid EXCEPT ![entry] = @ + MAXOPEN]
  /\ serving' = "open"
  /\ UNCHANGED <<clients, o_file, fdpages, request>>

OpenfileAlloc ==
  /\ serving = "alloc" /\ entry \in Entry /\ pageref(entry) <= 1
  /\ o_mapped' = o_mapped \cup {entry}
  /\ o_fileid' = [o_fileid EXCEPT ![entry] = @ + MAXOPEN]
  /\ fd_id' = [fd_id EXCEPT ![entry] = 0]
  /\ fd_offset' = [fd_offset EXCEPT ![entry] = 0]
  /\ serving' = "open"
  /\ UNCHANGED <<clients, o_file, request>>

\* The page of an entry never used before cannot be allocated.
OpenfileNoMem ==
  /\ serving = "alloc" /\ entry \in Entry /\ pageref(entry) = 0
  /\ Reply("E_OTHER")
  /\ UNCHANGED <<clients, opentab, fdpages, whom, req, entry, moved>>

OpenfileInUse ==
  /\ serving = "alloc" /\ entry \in Entry /\ pageref(entry) > 1
  /\ entry' = entry + 1
  /\ UNCHANGED <<clients, opentab, fdpages, serving, whom, req, moved, answer>>

OpenfileNone ==
  /\ serving = "alloc" /\ entry = NoEntry
  /\ Reply("E_MAX_OPEN")
  /\ UNCHANGED <<clients, opentab, fdpages, whom, req, entry, moved>>

\* The rest of serve_open(); O_CREAT and O_TRUNC are among what may fail.
ServeOpen ==
  /\ serving = "open"
  /\ o_file' = [o_file EXCEPT ![entry] = req.file]
  /\ fd_id' = [fd_id EXCEPT ![entry] = o_fileid[entry]]
  /\ Reply("ok")
  /\ UNCHANGED <<clients, o_mapped, o_fileid, fd_offset, whom, req, entry, moved>>

ServeOpenFails ==
  /\ serving = "open"
  /\ Reply("E_OTHER")
  /\ UNCHANGED <<clients, opentab, fdpages, whom, req, entry, moved>>

\* openfile_lookup() and, for a stat, the rest.
\* Mutant: it does not matter whether anybody still maps the page.
FoundById == o_fileid[entry] = req.id

Found == pageref(entry) > 1 /\ o_fileid[entry] = req.id

OpenfileLookup ==
  /\ serving = "lookup"
  /\ \/ ~Found /\ Reply("E_INVAL")
     \/ Found /\ req.op \in Transfers /\ serving' = "transfer" /\ UNCHANGED answer
     \/ Found /\ req.op \in {"set_size", "flush"} /\ serving' = "work" /\ UNCHANGED answer
     \/ Found /\ req.op = "stat" /\ Reply("ok")
  /\ UNCHANGED <<clients, opentab, fdpages, whom, req, entry, moved>>

\* file_set_size(), file_flush(), fs_sync(), whatever the result.
FileWork ==
  /\ serving = "work"
  /\ Reply("ok")
  /\ UNCHANGED <<clients, opentab, fdpages, whom, req, entry, moved>>

\* serve_read() and serve_write(): file_read() or file_write() at the offset
\* (one that fails leaves the offset as one of 0 bytes) ...
Transfer ==
  /\ serving = "transfer"
  /\ \E n \in Offset : fd_offset[entry] + n \in Offset /\ moved' = n
  /\ serving' = "advance"
  /\ UNCHANGED <<clients, opentab, fdpages, whom, req, entry, answer>>

\* ... and then fd_offset += r, whatever it is by now.
Advance ==
  /\ serving = "advance"
  /\ fd_offset' = [fd_offset EXCEPT ![entry] = @ + moved]
  /\ Reply("ok")
  /\ UNCHANGED <<clients, opentab, fd_id, whom, req, entry, moved>>

\* ipc_send() of serve(), tried until the client receives.  The Fd page goes
\* with the answer to an open; close() still has to unmap it.
\* Mutant: the answer is sent once, and lost if the client is not there yet.
ReplyOnce ==
  /\ serving = "reply" /\ status[whom] = "live"
  /\ serving' = "unmap"
  /\ at' = [at EXCEPT ![whom] = IF @ = "reply" THEN "user" ELSE @]
  /\ UNCHANGED <<status, call, fds, named, fsipcbuf, opentab, fdpages, request>>

ReplySent ==
  /\ serving = "reply" /\ status[whom] = "live" /\ at[whom] = "reply"
  /\ serving' = "unmap"
  /\ \/ /\ req.op = "open" /\ answer = "ok"
        /\ fds' = [fds EXCEPT ![whom][call[whom]] = entry]
        /\ named' = [named EXCEPT ![whom][call[whom]] = req.file]
     \/ ~(req.op = "open" /\ answer = "ok") /\ UNCHANGED <<fds, named>>
  /\ \/ /\ req.op = "flush" /\ call[whom] # NoFd
        /\ at' = [at EXCEPT ![whom] = "unmap"]
        /\ UNCHANGED call
     \/ /\ ~(req.op = "flush" /\ call[whom] # NoFd)
        /\ at' = [at EXCEPT ![whom] = "user"]
        /\ call' = [call EXCEPT ![whom] = NoFd]
  /\ UNCHANGED <<status, fsipcbuf, opentab, fdpages, request>>

\* ipc_send() panics on every error but -E_IPC_NOT_RECV: the client is gone, or
\* there is no memory to map the Fd page into it.
ReplyPanics ==
  /\ serving = "reply"
  /\ \/ status[whom] # "live"
     \/ at[whom] = "reply" /\ req.op = "open" /\ answer = "ok"
  /\ Panic

\* sys_page_unmap(0, fsreq), and the next ipc_recv()
UnmapRequest ==
  /\ serving = "unmap"
  /\ serving' = "recv"
  /\ whom' = Root /\ req' = Idle /\ entry' = NoEntry /\ moved' = 0 /\ answer' = "none"
  /\ UNCHANGED <<clients, opentab, fdpages>>

Server ==
  \/ OpenfileAlloc \/ OpenfileInUse \/ OpenfileNone \/ OpenfileNoMem
  \/ ServeOpen \/ ServeOpenFails
  \/ OpenfileLookup \/ FileWork \/ Transfer \/ Advance \/ FileSystemPanics
  \/ ReplySent \/ ReplyPanics \/ UnmapRequest

Next ==
  \/ \E c \in Client :
       \/ Receive(c) \/ UnmapFd(c) \/ Sync(c) \/ Die(c)
       \/ \E op \in OnFile, id \in FileId : OnCopy(c, op, id)
       \/ \E d \in Fd :
            \/ Unmap(c, d)
            \/ \E f \in File : Open(c, d, f)
            \/ \E op \in OnFile : OnDescriptor(c, d, op)
            \/ \E new \in Fd : Dup(c, d, new)
            \/ \E offset \in Offset : Seek(c, d, offset)
       \/ \E child \in Client : Fork(c, child)
  \/ Server

Spec == Init /\ [][Next]_vars

\* The server and a client that has sent a request are run again and again
\* (NoStarvation of KernEnv); what else clients do, they may not do.
FairSpec == Spec /\ WF_vars(Server) /\ \A c \in Client : WF_vars(Receive(c))

-----------------------------------------------------------------------------
\* A descriptor names the file it was opened on for as long as anybody has
\* it, by open(), dup() or fork(): its entry is not given away, and the id
\* in the Fd page is the one openfile_lookup() wants (openfile_alloc and
\* openfile_lookup of fs/serv.c).
FdNamesFile ==
  \A c \in Client : \A d \in Fd : IsOpen(c, d) =>
    LET i == fds[c][d]
    IN  i \in o_mapped /\ fd_id[i] = o_fileid[i] /\ o_file[i] = named[c][d]

\* From the moment an entry is taken to that at which the client has it, its
\* page is nobody's, and a new descriptor begins at offset 0: no client of
\* the entry's last use can still move it (openfile_alloc, serve_open).
NewFdIsFresh ==
  serving = "open" \/ (serving = "reply" /\ req.op = "open" /\ answer = "ok")
    => (\A c \in Client : \A d \in Fd : fds[c][d] # entry) /\ fd_offset[entry] = 0

\* openfile_lookup() refuses a request exactly when its id is stale: when no
\* client has a descriptor of that use of the entry any more, be it that the
\* caller died or that it kept a copy of the Fd page (user/testfile.c:59-68).
\* How often the page is mapped, and the last id, are enough to tell.
RefusedExactlyWhenStale ==
  [][serving = "lookup" /\ serving' # "lookup" =>
       (answer' = "E_INVAL" <=>
          \A c \in Client, d \in Fd : IsOpen(c, d) => fd_id[fds[c][d]] # req.id)]_vars

\* Nobody waits for an answer that nobody owes: a living client in the middle
\* of a request is the one the server works for and has not answered yet, or
\* the one over whose request it has panicked (fsipc, serve, ipc_send).
NobodyForgotten ==
  \A c \in Client :
    status[c] = "live" /\ at[c] \in {"sent", "reply"} =>
      whom = c /\ serving \notin {"recv", "unmap"}

\* Who has sent a request gets its answer, unless it dies or the server panics,
\* however long the server has to try until the client receives (serve).
RequestsEnd ==
  \A c \in Client : at[c] = "sent" ~> at[c] \in {"user", "unmap"} \/ serving = "panicked"
=============================================================================
