----------------------------- MODULE ComposeFile -----------------------------
(***************************************************************************)
(* docker-compose.yaml and the handlers that read and write it:            *)
(* put_compose_file and get_compose_file (handlers/compose.rs), and the    *)
(* PutFile and GetFile commands of the poll loop (poller.rs).              *)
(*                                                                         *)
(* Both writers use the same scheme without a lock: std::fs::write to      *)
(* docker-compose.yaml.tmp (open with O_CREAT and O_TRUNC, then write),    *)
(* then rename over docker-compose.yaml.  The handlers run on the threads  *)
(* of the tokio runtime, so their system calls interleave.  The model is   *)
(* at the level of system calls: a directory entry names an inode, an open *)
(* file keeps its inode whatever happens to the entry.                     *)
(***************************************************************************)
EXTENDS Naturals, FiniteSets

CONSTANTS HttpPuts,     \* PUT requests that may be in flight together
          Poller,       \* the poll loop, which runs one command at a time
          Readers,      \* GET requests and whatever else reads the file
          Contents,     \* the contents requests carry
          Yaml,         \* those that serde_yaml parses
          Size,         \* Size[c]: the writes it takes to write content c
          Inodes,       \* enough inodes for every entry and open file
          Hole,         \* a block nobody wrote, read as zeros
          None,         \* no inode, no writer
          GitRepo       \* is_git_repo(compose.dir)

Writers == HttpPuts \union {Poller}

ASSUME ConstantsOK ==
    /\ Poller \notin HttpPuts
    /\ Contents # {}
    /\ Yaml \subseteq Contents
    /\ Size \in [Contents -> Nat \ {0}]
    /\ Hole \notin Contents
    /\ None \notin Inodes \union Writers
    /\ GitRepo \in BOOLEAN

VARIABLES composePath,  \* the entry docker-compose.yaml: an inode or None
          tmpPath,      \* the entry docker-compose.yaml.tmp
          data,         \* data[i]: the blocks of inode i
          pc,           \* where each writer is
          arg,          \* the content it is writing
          fd,           \* the inode it has open for writing
          off,          \* the blocks it has written
          result,       \* what it reported last
          rpc,          \* where each reader is
          rfd,          \* the inode a reader has open
          index, head,  \* the staged and the committed file, None at first
          log,          \* every file ever committed (history)
          solo          \* the writer nobody has overlapped since it opened
                        \* the temporary file, or None (history)

fileVars == <<composePath, tmpPath, data>>
reqVars  == <<pc, arg, fd, off, result>>
readVars == <<rpc, rfd>>
gitVars  == <<index, head, log>>
vars == <<fileVars, reqVars, readVars, gitVars, solo>>

(* A file is a sequence of blocks, each tagged with the content it is from. *)
Image == [c \in Contents |-> [i \in 1 .. Size[c] |-> c]]
Empty == [i \in {} |-> Hole]

(* write(2) of the k-th block; past the end of the file it leaves a hole. *)
WriteAt(img, k, c) ==
    [i \in DOMAIN img \union 1 .. k |->
        IF i = k THEN c ELSE IF i \in DOMAIN img THEN img[i] ELSE Hole]

Whole(img) == \E c \in Yaml : img = Image[c]

Free == {i \in Inodes : /\ i \notin {composePath, tmpPath}
                        /\ \A w \in Writers : fd[w] # i
                        /\ \A r \in Readers : rfd[r] # i}

Init ==
    /\ \/ composePath = None /\ data = [i \in Inodes |-> Empty]
       \/ \E i \in Inodes, c \in Yaml :
             /\ composePath = i
             /\ data = [[j \in Inodes |-> Empty] EXCEPT ![i] = Image[c]]
    /\ tmpPath = None
    /\ pc = [w \in Writers |-> "idle"]
    /\ arg = [w \in Writers |-> CHOOSE c \in Contents : TRUE]
    /\ fd = [w \in Writers |-> None]
    /\ off = [w \in Writers |-> 0]
    /\ result = [w \in Writers |-> "none"]
    /\ rpc = [r \in Readers |-> "idle"]
    /\ rfd = [r \in Readers |-> None]
    /\ index = Empty /\ head = Empty /\ log = {}
    /\ solo = None

-------------------------------------------------------------------------------
(* The handler returns: what it answers is its result. *)
Return(w, answer) ==
    /\ pc' = [pc EXCEPT ![w] = "idle"]
    /\ result' = [result EXCEPT ![w] = answer]

Goto(w, label) ==
    /\ pc' = [pc EXCEPT ![w] = label]
    /\ UNCHANGED result

Close(w) ==
    /\ fd' = [fd EXCEPT ![w] = None]
    /\ off' = [off EXCEPT ![w] = 0]

(* A request or a command with a content arrives.  What serde_yaml does not
   parse, a command without a content, and a directory that cannot be created
   end it here. *)
Receive(w) ==
    /\ pc[w] = "idle"
    /\ \/ \E c \in Yaml : arg' = [arg EXCEPT ![w] = c] /\ Goto(w, "open")
       \/ Return(w, "failed") /\ UNCHANGED arg
    /\ UNCHANGED <<fileVars, fd, off, readVars, gitVars, solo>>

(* Between open and the end of its use of the temporary file. *)
Staging(w) == pc[w] \in {"write", "rename", "remove"}

(* Mutants of OpenTmp: the file is opened without O_TRUNC; the served file is
   rewritten in place, through a second name for it. *)
OpenTmpKeep(w) ==
    /\ pc[w] = "open"
    /\ \E i \in IF tmpPath = None THEN Free ELSE {tmpPath} :
          /\ tmpPath' = i
          /\ fd' = [fd EXCEPT ![w] = i]
    /\ solo' = IF \A v \in Writers \ {w} : ~Staging(v) THEN w ELSE None
    /\ Goto(w, "write")
    /\ UNCHANGED <<composePath, data, arg, off, readVars, gitVars>>

OpenInPlace(w) ==
    /\ pc[w] = "open"
    /\ \E i \in IF composePath = None THEN Free ELSE {composePath} :
          /\ tmpPath' = i
          /\ fd' = [fd EXCEPT ![w] = i]
          /\ data' = [data EXCEPT ![i] = Empty]
    /\ solo' = IF \A v \in Writers \ {w} : ~Staging(v) THEN w ELSE None
    /\ Goto(w, "write")
    /\ UNCHANGED <<composePath, arg, off, readVars, gitVars>>

(* std::fs::write opens the file and truncates what it finds. *)
OpenTmp(w) ==
    /\ pc[w] = "open"
    /\ \E i \in IF tmpPath = None THEN Free ELSE {tmpPath} :
          /\ tmpPath' = i
          /\ fd' = [fd EXCEPT ![w] = i]
          /\ data' = [data EXCEPT ![i] = Empty]
    /\ solo' = IF \A v \in Writers \ {w} : ~Staging(v) THEN w ELSE None
    /\ Goto(w, "write")
    /\ UNCHANGED <<composePath, arg, off, readVars, gitVars>>

(* Mutant of WriteTmp: one write, however much of the content it takes. *)
WriteOnce(w) ==
    /\ pc[w] = "write"
    /\ data' = [data EXCEPT ![fd[w]] = WriteAt(@, off[w] + 1, arg[w])]
    /\ Close(w)
    /\ Goto(w, "rename")
    /\ UNCHANGED <<composePath, tmpPath, arg, readVars, gitVars, solo>>

(* ... and writes the content from its own offset, in one write or several;
   the file is closed with the last. *)
WriteTmp(w) ==
    /\ pc[w] = "write"
    /\ data' = [data EXCEPT ![fd[w]] = WriteAt(@, off[w] + 1, arg[w])]
    /\ \/ /\ off[w] + 1 < Size[arg[w]]
          /\ off' = [off EXCEPT ![w] = @ + 1]
          /\ UNCHANGED <<pc, result, fd>>
       \/ /\ off[w] + 1 = Size[arg[w]]
          /\ Close(w)
          /\ Goto(w, "rename")
    /\ UNCHANGED <<composePath, tmpPath, arg, readVars, gitVars, solo>>

(* open or write fails (no space, no permission): the handler returns and
   leaves the temporary file as it is. *)
WriteFails(w) ==
    /\ pc[w] \in {"open", "write"}
    /\ Close(w)
    /\ Return(w, "failed")
    /\ UNCHANGED <<fileVars, arg, readVars, gitVars, solo>>

(* rename moves whatever the entry names now. *)
Rename(w) ==
    /\ pc[w] = "rename"
    /\ tmpPath # None
    /\ composePath' = tmpPath
    /\ tmpPath' = None
    /\ Goto(w, IF w # Poller /\ GitRepo THEN "git_add" ELSE "reply")
    /\ UNCHANGED <<data, arg, fd, off, readVars, gitVars, solo>>

(* The answer without a commit: committed is false. *)
Reply(w) ==
    /\ pc[w] = "reply"
    /\ Return(w, "written")
    /\ UNCHANGED <<fileVars, arg, fd, off, readVars, gitVars, solo>>

(* Mutant of RenameFails: the error is ignored and success answered. *)
RenameErrorIgnored(w) ==
    /\ pc[w] = "rename"
    /\ Goto(w, "reply")
    /\ UNCHANGED <<fileVars, arg, fd, off, readVars, gitVars, solo>>

(* There is no temporary file to rename, or rename fails for a reason of its
   own: the error branch removes the temporary file, in a later step. *)
RenameFails(w) ==
    /\ pc[w] = "rename"
    /\ Goto(w, "remove")
    /\ UNCHANGED <<fileVars, arg, fd, off, readVars, gitVars, solo>>

(* Mutant of RemoveTmp: the clean-up removes the served file. *)
RemoveCompose(w) ==
    /\ pc[w] = "remove"
    /\ composePath' = None
    /\ Return(w, "failed")
    /\ UNCHANGED <<tmpPath, data, arg, fd, off, readVars, gitVars, solo>>

RemoveTmp(w) ==
    /\ pc[w] = "remove"
    /\ tmpPath' = None
    /\ Return(w, "failed")
    /\ UNCHANGED <<composePath, data, arg, fd, off, readVars, gitVars, solo>>

(* Mutant of GitAdd: the temporary file is staged when there is one. *)
GitAddTmp(w) ==
    /\ pc[w] = "git_add"
    /\ index' = data[IF tmpPath = None THEN composePath ELSE tmpPath]
    /\ Goto(w, "git_commit")
    /\ UNCHANGED <<fileVars, arg, fd, off, readVars, head, log, solo>>

(* git add: its exit status is not looked at, so it may have staged nothing;
   only a git that cannot be started ends git_commit. *)
GitAdd(w) ==
    /\ pc[w] = "git_add"
    /\ \/ /\ index' = data[composePath]
          /\ Goto(w, "git_commit")
       \/ /\ UNCHANGED index
          /\ Goto(w, "git_commit")
       \/ /\ UNCHANGED index
          /\ Return(w, "committed")
    /\ UNCHANGED <<fileVars, arg, fd, off, readVars, head, log, solo>>

(* git commit commits what is staged.  It may fail, or find nothing new; and
   rev-parse may fail after it.  The answer says committed in every case, with
   a commit SHA when there is one. *)
GitCommit(w) ==
    /\ pc[w] = "git_commit"
    /\ \/ /\ index # head
          /\ head' = index
          /\ log' = log \union {index}
          /\ \E answer \in {"committed", "committed_sha"} : Return(w, answer)
       \/ /\ Return(w, "committed")
          /\ UNCHANGED <<head, log>>
    /\ UNCHANGED <<fileVars, arg, fd, off, readVars, index, solo>>

(* The client is gone, and the handler is dropped at its await of git.  The git
   that runs goes on by itself (no kill_on_drop) and has its effect or not;
   nothing follows it. *)
Disconnect(w) ==
    /\ \/ /\ pc[w] = "git_add"
          /\ index' \in {index, data[composePath]}
          /\ UNCHANGED <<head, log>>
       \/ /\ pc[w] = "git_commit"
          /\ \/ index # head /\ head' = index /\ log' = log \union {index}
             \/ UNCHANGED <<head, log>>
          /\ UNCHANGED index
    /\ Return(w, "none")
    /\ UNCHANGED <<fileVars, arg, fd, off, readVars, solo>>

-------------------------------------------------------------------------------
(* find_compose_file: without a file the answer is not found. *)
FindFile(r) ==
    /\ rpc[r] = "idle"
    /\ composePath # None
    /\ rpc' = [rpc EXCEPT ![r] = "found"]
    /\ UNCHANGED <<fileVars, reqVars, rfd, gitVars, solo>>

(* read_to_string opens the path again by name ... *)
OpenFile(r) ==
    /\ rpc[r] = "found"
    /\ rpc' = [rpc EXCEPT ![r] = "read"]
    /\ rfd' = [rfd EXCEPT ![r] = composePath]
    /\ UNCHANGED <<fileVars, reqVars, gitVars, solo>>

(* ... reads to the end, and the answer is sent. *)
ReadFile(r) ==
    /\ rpc[r] = "read"
    /\ rpc' = [rpc EXCEPT ![r] = "idle"]
    /\ rfd' = [rfd EXCEPT ![r] = None]
    /\ UNCHANGED <<fileVars, reqVars, gitVars, solo>>

(* The service stops or dies: its handlers are gone, the directory is not. *)
Crash ==
    /\ pc' = [w \in Writers |-> "idle"]
    /\ fd' = [w \in Writers |-> None]
    /\ result' = [w \in Writers |-> "none"]
    /\ rpc' = [r \in Readers |-> "idle"]
    /\ rfd' = [r \in Readers |-> None]
    /\ off' = [w \in Writers |-> 0]
    /\ solo' = None
    /\ UNCHANGED <<fileVars, arg, gitVars>>

-------------------------------------------------------------------------------
PutFile(w) == \/ Receive(w)
              \/ OpenTmp(w) \/ WriteTmp(w) \/ WriteFails(w)
              \/ Rename(w) \/ RenameFails(w) \/ RemoveTmp(w)
              \/ Reply(w)

(* put_compose_file also commits; the PutFile command does not. *)
PutComposeFile(w) == PutFile(w) \/ GitAdd(w) \/ GitCommit(w) \/ Disconnect(w)

GetFile(r) == FindFile(r) \/ OpenFile(r) \/ ReadFile(r)

Next == \/ \E w \in HttpPuts : PutComposeFile(w)
        \/ PutFile(Poller)
        \/ \E r \in Readers : GetFile(r)
        \/ Crash

Spec == Init /\ [][Next]_vars

(* The file system steps of one request at a time, which is all a node does
   whose only writer is the poll loop, or whose PUT requests come one by one. *)
Writing(w) == pc[w] = "open" \/ Staging(w)
Serial == \A u, v \in Writers : Writing(u) /\ Writing(v) => u = v
SerialNext ==
    \/ \E w \in Writers : PutFile(w) /\ Serial'
    \/ \E w \in HttpPuts : GitAdd(w) \/ GitCommit(w) \/ Disconnect(w)
    \/ \E r \in Readers : GetFile(r)
    \/ Crash

SerialSpec == Init /\ [][SerialNext]_vars

-------------------------------------------------------------------------------
TypeOK ==
    /\ composePath \in Inodes \union {None}
    /\ tmpPath \in Inodes \union {None}
    /\ data = [i \in Inodes |-> data[i]]
    /\ pc \in [Writers -> {"idle", "open", "write", "rename", "remove",
                           "reply", "git_add", "git_commit"}]
    /\ arg \in [Writers -> Contents]
    /\ fd \in [Writers -> Inodes \union {None}]
    /\ off \in [Writers -> Nat]
    /\ result \in [Writers -> {"none", "failed", "written",
                               "committed", "committed_sha"}]
    /\ rpc \in [Readers -> {"idle", "found", "read"}]
    /\ rfd \in [Readers -> Inodes \union {None}]
    /\ solo \in Writers \union {None}

(* README.md:124, compose.rs:334: the write is atomic.  What is served is one
   whole accepted content, never a prefix and never a mixture. *)
ServedIsWhole == composePath # None => Whole(data[composePath])

(* A reader that holds the file open gets a whole content whatever is renamed
   over the file meanwhile. *)
ReaderSeesWhole == \A r \in Readers : rpc[r] = "read" => Whole(data[rfd[r]])

(* The repository never records a torn file: git add reads the file while
   another request may be writing the next one. *)
HistoryIsWhole == \A img \in log : Whole(img)

(* Whatever is interleaved, no block of a content that failed validation
   reaches the served file, the temporary file or the repository. *)
Accepted(img) == \A i \in DOMAIN img : img[i] \in Yaml \union {Hole}
OnlyAcceptedBlocks ==
    /\ \A i \in Inodes : Accepted(data[i])
    /\ \A img \in log : Accepted(img)

(* Without a lock the guarantee is local: a request during which no other
   request was staging commits exactly its own content, whatever earlier
   overlaps and crashes left in the directory. *)
SoloWriteIsWhole ==
    [][\A w \in Writers :
          /\ solo = w
          /\ pc[w] = "rename"
          /\ pc'[w] \in {"reply", "git_add"}
          => data'[composePath'] = Image[arg[w]]]_vars

(* Once the file exists no failure, clean-up or crash leaves the node without
   it: a reader that found it opens it. *)
FoundStaysFound == \A r \in Readers : rpc[r] # "idle" => composePath # None

(* The promise of AtomicFile, through the inode that the entry names. *)
ServedFile == IF composePath = None THEN None ELSE data[composePath]
Phase == [w \in Writers |-> IF pc[w] = "idle" THEN "idle"
                            ELSE IF Writing(w) THEN "busy" ELSE "applied"]
View == [r \in Readers |-> IF rpc[r] = "read" THEN data[rfd[r]] ELSE None]

AF == INSTANCE AtomicFile WITH NoFile <- None, file <- ServedFile,
                               phase <- Phase, want <- arg, view <- View

(* One request at a time, the scheme implements the atomic write. *)
Atomic == AF!Spec
===============================================================================
