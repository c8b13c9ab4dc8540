--------------------------- MODULE CheckpointStore ---------------------------
(***************************************************************************)
(* The checkpoint file of one run: automation_framework/storage/           *)
(* checkpoint_store.py, and who saves through it.                          *)
(*                                                                         *)
(* Two threads do: the crawler's, which saves after every step and once    *)
(* more when crawler_service.run_scan has loaded the file to add the run's *)
(* final state, and the event loop, when a user presses "Save progress".   *)
(* Both write the same temporary file and rename it, and no lock is held.  *)
(*                                                                         *)
(* A name refers to an inode, as in a POSIX file system: a file that is    *)
(* opened keeps its inode whatever happens to its name.                    *)
(***************************************************************************)
EXTENDS Naturals, FiniteSets

CONSTANTS
    Chunks,       \* writes of one payload: a checkpoint is larger than a buffer
    Hole,         \* a chunk that is not written
    Retries,      \* attempts of _atomic_replace, 5
    MaxSaves,     \* bound: checkpoints of the crawler over all its starts
    MaxRequests,  \* bound: save-progress requests
    MaxStarts     \* bound: crawls of the run

ASSUME BoundAssumption == {MaxSaves, MaxRequests, MaxStarts} \subseteq Nat
ASSUME FileAssumption == {Chunks, Retries} \subseteq Nat \ {0}

Savers == {"crawler", "api"}
Names == {"tmp", "main"}

\* Enough for two names and two open files.
Inodes == 1..4
NoFile == 0

\* A payload is how far the crawl in it has come; 0 is an empty one, of a run that
\* has nothing or whose file does not parse.
Payloads == 0..MaxSaves
ASSUME HoleAssumption == Hole \notin Payloads

VARIABLES
    name,      \* the inode of a name
    content,   \* what an inode holds, chunk by chunk
    saver,     \* the call of save of each thread
    crawl,     \* the crawler's thread: "off", "on", or "over" in run_scan's last save
    progress,  \* how far the crawler has come, in memory
    saves, requests, starts,
    saved,     \* history: the payload that was saved last
    raced      \* history: two threads have been saving at the same time

vars == <<name, content, saver, crawl, progress, saves, requests, starts, saved, raced>>

Idle == [pc |-> "idle", payload |-> 0, inode |-> NoFile, chunk |-> 1, attempt |-> 1]
Blank == [i \in 1..Chunks |-> Hole]

Init ==
    /\ name = [n \in Names |-> NoFile]
    /\ content = [i \in Inodes |-> Blank]
    /\ saver = [s \in Savers |-> Idle]
    /\ crawl = "off" /\ progress = 0
    /\ saves = 0 /\ requests = 0 /\ starts = 0
    /\ saved = 0 /\ raced = FALSE

Busy(s) == saver[s].pc # "idle"

-----------------------------------------------------------------------------
(* load.                                                                   *)

\* It parses when one payload has filled the file.
Whole(i) == \E p \in Payloads : content[i] = [k \in 1..Chunks |-> p]

\* load_checkpoint(run_id) or {}
Loaded ==
    IF name["main"] # NoFile /\ Whole(name["main"]) THEN content[name["main"]][1] ELSE 0

-----------------------------------------------------------------------------
(* save.                                                                   *)

BeginSave(s, payload) ==
    /\ saver' = [saver EXCEPT ![s] = [pc |-> "open", payload |-> payload, inode |-> NoFile,
                                     chunk |-> 1, attempt |-> 1]]
    /\ raced' = (raced \/ \E t \in Savers \ {s} : Busy(t))

Fresh == CHOOSE i \in Inodes :
    /\ \A n \in Names : name[n] # i
    /\ \A s \in Savers : saver[s].inode # i

\* Mutant of Open: the checkpoint itself is written, without a temporary file.
MutantOpenInPlace(s) ==
    LET i == IF name["main"] = NoFile THEN Fresh ELSE name["main"] IN
    /\ saver[s].pc = "open"
    /\ name' = [n \in Names |-> i]
    /\ content' = [content EXCEPT ![i] = Blank]
    /\ saver' = [saver EXCEPT ![s].pc = "write", ![s].inode = i]
    /\ UNCHANGED <<crawl, progress, saves, requests, starts, saved, raced>>

\* write_text opens the temporary file: it truncates the one that is there, also
\* one that another thread is writing.
Open(s) ==
    LET i == IF name["tmp"] = NoFile THEN Fresh ELSE name["tmp"] IN
    /\ saver[s].pc = "open"
    /\ name' = [name EXCEPT !["tmp"] = i]
    /\ content' = [content EXCEPT ![i] = Blank]
    /\ saver' = [saver EXCEPT ![s].pc = "write", ![s].inode = i]
    /\ UNCHANGED <<crawl, progress, saves, requests, starts, saved, raced>>

\* ... and writes at its own offset.
Write(s) ==
    LET k == saver[s].chunk IN
    /\ saver[s].pc = "write"
    /\ content' = [content EXCEPT ![saver[s].inode][k] = saver[s].payload]
    /\ saver' = IF k < Chunks
                THEN [saver EXCEPT ![s].chunk = k + 1]
                ELSE [saver EXCEPT ![s].pc = "rename", ![s].inode = NoFile]
    /\ UNCHANGED <<name, crawl, progress, saves, requests, starts, saved, raced>>

\* _atomic_replace renames whatever has the temporary name.
Rename(s) ==
    /\ saver[s].pc = "rename" /\ name["tmp"] # NoFile
    /\ name' = [n \in Names |-> IF n = "main" THEN name["tmp"] ELSE NoFile]
    /\ saved' = saver[s].payload
    /\ saver' = [saver EXCEPT ![s] = Idle]
    /\ UNCHANGED <<content, crawl, progress, saves, requests, starts, raced>>

\* Mutant of RenameFails: it tries once more than it may.
MutantOneRetryMore(s) ==
    /\ saver[s].pc = "rename" /\ name["tmp"] = NoFile
    /\ saver' = IF saver[s].attempt <= Retries
                THEN [saver EXCEPT ![s].attempt = @ + 1]
                ELSE [saver EXCEPT ![s] = Idle]
    /\ UNCHANGED <<name, content, crawl, progress, saves, requests, starts, saved, raced>>

\* The other thread has renamed it: wait and try again, and at last return False.
RenameFails(s) ==
    /\ saver[s].pc = "rename" /\ name["tmp"] = NoFile
    /\ saver' = IF saver[s].attempt < Retries
                THEN [saver EXCEPT ![s].attempt = @ + 1]
                ELSE [saver EXCEPT ![s] = Idle]
    /\ UNCHANGED <<name, content, crawl, progress, saves, requests, starts, saved, raced>>

SaveStep(s) == Open(s) \/ Write(s) \/ Rename(s) \/ RenameFails(s)

-----------------------------------------------------------------------------
(* Who saves.                                                              *)

\* A crawl starts from what it can load.
StartCrawl ==
    /\ crawl = "off" /\ starts < MaxStarts
    /\ crawl' = "on" /\ starts' = starts + 1
    /\ progress' = Loaded
    /\ UNCHANGED <<name, content, saver, saves, requests, saved, raced>>

\* CrawlerEngine._save_checkpoint, after some progress.
CrawlerSaves ==
    /\ crawl = "on" /\ ~Busy("crawler")
    /\ saves < MaxSaves /\ saves' = saves + 1
    /\ progress' = progress + 1
    /\ BeginSave("crawler", progress')
    /\ UNCHANGED <<name, content, crawl, requests, starts, saved>>

\* run_scan loads the checkpoint once more and saves it with the run's final state.
FinalSave ==
    /\ crawl = "on" /\ ~Busy("crawler")
    /\ crawl' = "over"
    /\ BeginSave("crawler", Loaded)
    /\ UNCHANGED <<name, content, progress, saves, requests, starts, saved>>

CrawlEnds ==
    /\ crawl = "over" /\ ~Busy("crawler")
    /\ crawl' = "off"
    /\ UNCHANGED <<name, content, saver, progress, saves, requests, starts, saved, raced>>

\* save-progress loads the checkpoint and saves what it has loaded.
SaveProgress ==
    /\ starts > 0 /\ ~Busy("api")
    /\ requests < MaxRequests /\ requests' = requests + 1
    /\ BeginSave("api", Loaded)
    /\ UNCHANGED <<name, content, crawl, progress, saves, starts, saved>>

\* The process dies; the files stay as they are.
Crash ==
    /\ crawl # "off" \/ Busy("api")
    /\ saver' = [s \in Savers |-> Idle]
    /\ crawl' = "off" /\ progress' = 0
    /\ UNCHANGED <<name, content, saves, requests, starts, saved, raced>>

Next ==
    \/ StartCrawl \/ CrawlerSaves \/ FinalSave \/ CrawlEnds \/ SaveProgress \/ Crash
    \/ \E s \in Savers : SaveStep(s)

Spec == Init /\ [][Next]_vars

\* A thread that saves goes on, and no one owes a crawl or a request.

-----------------------------------------------------------------------------
(* Properties.                                                             *)

TypeOK ==
    /\ name \in [Names -> {NoFile} \cup Inodes]
    /\ name["tmp"] = name["main"] => name["tmp"] = NoFile
    /\ content \in [Inodes -> [1..Chunks -> Payloads \cup {Hole}]]
    /\ saver \in [Savers -> [pc : {"idle", "open", "write", "rename"}, payload : Payloads,
                             inode : {NoFile} \cup Inodes, chunk : 1..Chunks,
                             attempt : 1..Retries]]
    /\ crawl \in {"off", "on", "over"}
    /\ progress \in Payloads /\ saves \in 0..MaxSaves
    /\ requests \in 0..MaxRequests /\ starts \in 0..MaxStarts
    /\ saved \in Payloads /\ raced \in BOOLEAN

\* While no two threads save at the same time, the file is the checkpoint that was
\* saved last, however often and wherever in a save the process dies, and so is
\* what a crawl resumes from.
LoneSavesAreDurable == ~raced => Loaded = saved
=============================================================================
