----------------------------- MODULE KevCatalog -----------------------------
(***************************************************************************)
(* KevCatalog.load of intel/enrich.py: the catalog of known exploited      *)
(* vulnerabilities and its cache file.  Every command that ranks CVEs is a *)
(* process that loads the catalog; the file is shared by all of them and   *)
(* survives them.  It is written in place, in several system calls.        *)
(*                                                                         *)
(* A process may be killed at any point, a write may fail, and the server  *)
(* may answer with something that is not the feed.  Time is counted in     *)
(* hours: a load is short against MaxAge and takes no time.                *)
(***************************************************************************)
EXTENDS Integers, Sequences

CONSTANTS
    Proc,     \* processes that may run at the same time
    Foreign,  \* what the server may send besides the feed
    MaxAge,   \* MAX_AGE_SECONDS
    Loads,    \* bound of the model: loads in all
    Horizon   \* bound of the model: hours

(* Other JSON: an object without entries, or a list.                       *)
OtherJSON == {<<"object", 0>>, <<"list", 0>>}

ASSUME KevCatalogAssumption ==
    /\ Foreign \subseteq OtherJSON
    /\ MaxAge \in Nat \ {0}
    /\ Loads \in Nat
    /\ Horizon \in Nat

VARIABLES
    now,       \* time.time()
    published, \* published[t + 1]: edition of the feed at the start of hour t
    edition,   \* the edition published now
    exists,    \* the cache file exists
    content,   \* its blocks
    mtime,     \* when it was written last
    pc,        \* where each process is
    payload,   \* what its load has got so far
    written,   \* blocks it has written
    loaded,    \* what its last load came to
    loads      \* loads started (history)

file == <<exists, content, mtime>>
world == <<now, published, edition>>
vars == <<world, file, pc, payload, written, loaded, loads>>

Feed(e) == <<"feed", e>>

(* The documents there are so far.                                         *)
Known == {Feed(e) : e \in 1 .. edition} \cup Foreign

Hole == <<"hole", 0>>

None == <<"none", 0>>

IsFeed(doc) == doc[1] = "feed"

(* Blocks a document takes up in the file.                                 *)
Blocks(doc) == IF IsFeed(doc) THEN 2 ELSE 1

TypeOK ==
    /\ now \in Nat
    /\ published \in Seq(Nat) /\ Len(published) = now + 1
    /\ edition \in Nat
    /\ exists \in BOOLEAN
    /\ \A i \in DOMAIN content : content[i] \in Known \cup {Hole}
    /\ ~exists => content = <<>>
    /\ mtime \in 0 .. now
    /\ pc \in [Proc -> {"idle", "read", "download", "open", "write", "fallback"}]
    /\ payload \in [Proc -> Known \cup {None}]
    /\ \A p \in Proc : pc[p] = "write" => written[p] \in 0 .. Blocks(payload[p]) - 1
    /\ loaded \in [Proc -> {Feed(e) : e \in 1 .. edition}
                            \cup {None, <<"empty", 0>>, <<"raised", 0>>}]
    /\ loads \in 0 .. Loads

Init ==
    /\ now = 0
    /\ published = <<1>>
    /\ edition = 1
    /\ exists = FALSE
    /\ content = <<>>
    /\ mtime = 0
    /\ pc = [p \in Proc |-> "idle"]
    /\ payload = [p \in Proc |-> None]
    /\ written = [p \in Proc |-> 0]
    /\ loaded = [p \in Proc |-> None]
    /\ loads = 0

-----------------------------------------------------------------------------
(* Mutant: a copy of exactly MaxAge hours still counts. *)
FreshInclusive == exists /\ now - mtime <= MaxAge

(* _cache_fresh *)
Fresh == exists /\ now - mtime < MaxAge

(* Mutant: the first block is taken for the whole document. *)
DecodeTorn == IF exists /\ content # <<>> THEN {content[1]} ELSE {}

(* _read_cache: the document in the file, if there is a whole one.         *)
Decode ==
    {d \in {content[i] : i \in DOMAIN content} \ {Hole} :
        exists /\ content = [i \in 1 .. Blocks(d) |-> d]}

(* parse_kev: a list raises, an object without entries is no catalog.      *)
Outcome(doc) ==
    CASE doc[1] = "list" -> <<"raised", 0>>
      [] doc[1] \in {"object", "none"} -> <<"empty", 0>>
      [] OTHER -> doc

Goto(p, label) == pc' = [pc EXCEPT ![p] = label]

Finish(p, doc) ==
    /\ Goto(p, "idle")
    /\ loaded' = [loaded EXCEPT ![p] = Outcome(doc)]
    /\ payload' = [payload EXCEPT ![p] = None]
    /\ UNCHANGED <<written, loads>>

(* load(force): forced, or the cache is stale: download. *)
Start(p) ==
    /\ pc[p] = "idle"
    /\ loads < Loads
    /\ loads' = loads + 1
    /\ loaded' = [loaded EXCEPT ![p] = None]
    /\ \/ Fresh /\ Goto(p, "read")
       \/ Goto(p, "download")
    /\ UNCHANGED <<world, file, payload, written>>

ReadFresh(p) ==
    /\ pc[p] = "read"
    /\ \/ \E doc \in Decode : Finish(p, doc)
       \/ /\ Decode = {}
          /\ Goto(p, "download")
          /\ UNCHANGED <<payload, written, loaded, loads>>
    /\ UNCHANGED <<world, file>>

(* _download: the feed, some other JSON, or a failure. *)
Download(p) ==
    /\ pc[p] = "download"
    /\ \/ \E doc \in {Feed(edition)} \cup Foreign :
            /\ payload' = [payload EXCEPT ![p] = doc]
            /\ Goto(p, "open")
       \/ /\ Goto(p, "fallback")
          /\ UNCHANGED payload
    /\ UNCHANGED <<world, file, written, loaded, loads>>

(* Mutant: the position of the previous write is kept. *)
OpenKeepingPosition(p) ==
    /\ pc[p] = "open"
    /\ exists' = TRUE
    /\ content' = <<>>
    /\ mtime' = now
    /\ Goto(p, "write")
    /\ UNCHANGED <<world, payload, written, loaded, loads>>

(* _write_cache opens the file, which empties it ... *)
Open(p) ==
    /\ pc[p] = "open"
    /\ exists' = TRUE
    /\ content' = <<>>
    /\ mtime' = now
    /\ written' = [written EXCEPT ![p] = 0]
    /\ Goto(p, "write")
    /\ UNCHANGED <<world, payload, loaded, loads>>

(* The block at position i becomes doc; a gap before it reads as zeros.    *)
Overwrite(i, doc) ==
    [j \in 1 .. (IF i > Len(content) THEN i ELSE Len(content)) |->
        IF j = i THEN doc ELSE IF j <= Len(content) THEN content[j] ELSE Hole]

(* ... and writes block by block, each process at its own position.        *)
Write(p) ==
    /\ pc[p] = "write"
    /\ content' = Overwrite(written[p] + 1, payload[p])
    /\ mtime' = now
    /\ IF written[p] + 1 = Blocks(payload[p])
       THEN Finish(p, payload[p])
       ELSE /\ written' = [written EXCEPT ![p] = written[p] + 1]
            /\ UNCHANGED <<pc, payload, loaded, loads>>
    /\ UNCHANGED <<world, exists>>

(* Mutant: a failed write loses the download. *)
WriteErrorLosing(p) ==
    /\ pc[p] \in {"open", "write"}
    /\ Finish(p, None)
    /\ UNCHANGED <<world, file>>

(* An OSError on the way is logged; load goes on with what it downloaded.  *)
WriteError(p) ==
    /\ pc[p] \in {"open", "write"}
    /\ Finish(p, payload[p])
    /\ UNCHANGED <<world, file>>

(* "last resort: a stale cache" *)
Fallback(p) ==
    /\ pc[p] = "fallback"
    /\ \/ \E doc \in Decode : Finish(p, doc)
       \/ Decode = {} /\ Finish(p, None)
    /\ UNCHANGED <<world, file>>

(* The process is killed. *)
Crash(p) ==
    /\ pc[p] # "idle"
    /\ Goto(p, "idle")
    /\ payload' = [payload EXCEPT ![p] = None]
    /\ UNCHANGED <<world, file, written, loaded, loads>>

Publish ==
    /\ edition < now + 2
    /\ edition' = edition + 1
    /\ UNCHANGED <<now, published, file, pc, payload, written, loaded, loads>>

Tick ==
    /\ now < Horizon
    /\ \A p \in Proc : pc[p] = "idle"
    /\ now' = now + 1
    /\ published' = Append(published, edition)
    /\ UNCHANGED <<edition, file, pc, payload, written, loaded, loads>>

Step(p) ==
    \/ Start(p) \/ ReadFresh(p) \/ Download(p) \/ Open(p) \/ Write(p)
    \/ WriteError(p) \/ Fallback(p)

Next ==
    \/ \E p \in Proc : Step(p) \/ Crash(p)
    \/ Publish
    \/ Tick

Spec == Init /\ [][Next]_vars

-----------------------------------------------------------------------------
(* "a 24h local cache" (enrich.py:147): a load that does not have to fall  *)
(* back returns no edition that was replaced MaxAge hours ago or more.     *)
Current ==
    [][\A p \in Proc :
        (pc[p] # "fallback" /\ loaded'[p] # loaded[p] /\ IsFeed(loaded'[p])) =>
            loaded'[p][2] >= published[IF now >= MaxAge THEN now - MaxAge + 2 ELSE 1]]_vars

(* A load whose download brought the feed returns that edition, also when  *)
(* the file cannot be written or others write it at the same time.         *)
DownloadCounts ==
    [][\A p \in Proc :
        IsFeed(payload[p]) /\ pc'[p] = "idle" =>
            loaded'[p] \in {payload[p], None}]_vars

=============================================================================
