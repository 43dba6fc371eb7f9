------------------------------- MODULE Install -------------------------------
(***************************************************************************)
(* agent-setup.py up to the registration: release metadata and programs    *)
(* are fetched under a time limit, the programs through a cache that       *)
(* survives failures, and only then is the system changed.  update fetches *)
(* through the same cache.                                                 *)
(*                                                                         *)
(* A lock admits one run at a time, except of check-update, which changes  *)
(* nothing.  The network delivers what it likes, when it likes, or         *)
(* nothing; each call may fail; the run may be interrupted or killed       *)
(* anywhere.  register, after the installation, is in Enrollment and the   *)
(* replacement of the programs in AgentUpdate.                             *)
(***************************************************************************)
EXTENDS Naturals

CONSTANTS
  Release,    \* releases; a program's content is named after its release
  Component,  \* the programs of a release (two)
  Broken,     \* any other content: truncated, damaged, not a program
  Nothing,    \* no file
  Attempts    \* DOWNLOAD_ATTEMPTS

ASSUME DistinctValues ==
  /\ Broken \notin Release /\ Nothing \notin Release /\ Broken # Nothing
  /\ "metadata" \notin Component /\ "health" \notin Component
  /\ Attempts \in Nat \ {0}

VARIABLES
  pc,        \* where the run is
  command,   \* install, check-update or update
  offline,   \* is it given a --bundle
  release,   \* the release that was asked for
  resource,  \* what is fetched: "metadata", a component or "health"
  attempt,   \* connections made for it
  alarm,     \* is the interval timer running
  body,      \* what was fetched
  staged,    \* the programs in the scratch directory
  cache,     \* the programs in the cache
  partial,   \* its .partial file
  account,   \* does the service account exist
  programs,  \* the programs in ROOT
  described, \* the release its agent-release.json names
  connected, \* is there a connection.json
  tool       \* is there a copy of agent-setup.py

installVars == <<pc, command, offline, release, resource, attempt, alarm, body, staged, cache,
                 partial, account, programs, described, connected, tool>>

fetching == <<resource, attempt, alarm, body>>
caching == <<cache, partial>>
system == <<account, programs, described, connected, tool>>
request == <<command, offline, release>>

-----------------------------------------------------------------------------
Content == Release \union {Broken}
Slot == Content \union {Nothing}

Command == {"install", "check-update", "update"}
Fetching == {"connect", "stream", "pause"}
Saving == {"open", "write", "rename"}
Changing == {"account", "copy", "describe", "connection", "tool"}

InstallTypeOK ==
  /\ pc \in {"idle", "read", "look", "got", "stage", "ask"} \union Fetching \union Saving \union Changing
  /\ command \in Command /\ offline \in BOOLEAN /\ release \in Release
  /\ resource \in Component \union {"metadata", "health"}
  /\ attempt \in 0..Attempts /\ alarm \in BOOLEAN /\ body \in Slot
  /\ staged \in [Component -> Slot]
  /\ cache \in [Component -> Slot] /\ partial \in Slot
  /\ account \in BOOLEAN /\ programs \in [Component -> Slot]
  /\ described \in Release \union {Nothing} /\ connected \in BOOLEAN /\ tool \in BOOLEAN

Empty == [c \in Component |-> Nothing]

InstallInit ==
  /\ pc = "idle" /\ command = "install" /\ offline = FALSE /\ release \in Release
  /\ resource = "metadata" /\ attempt = 0 /\ alarm = FALSE /\ body = Nothing
  /\ staged = Empty /\ cache = Empty /\ partial = Nothing
  /\ account = FALSE /\ programs = Empty
  /\ described = Nothing /\ connected = FALSE /\ tool = FALSE

-----------------------------------------------------------------------------
(***************************************************************************)
(* preflight, and the checks that refuse what is there.                    *)
(***************************************************************************)
Untouched == ~account /\ programs = Empty /\ described = Nothing /\ ~connected /\ ~tool

\* fetch is called: the interval timer is set once for all its attempts.
Fetch(what) ==
  /\ resource' = what /\ attempt' = 1 /\ alarm' = TRUE /\ body' = Nothing
  /\ pc' = "connect"

\* A bundle is read from a local directory.
Read(what) ==
  resource' = what /\ pc' = "read" /\ UNCHANGED <<attempt, alarm, body>>

Invoke(c, local, r) ==
  /\ pc = "idle"
  /\ \/ c = "install" /\ Untouched
     \/ c = "check-update" /\ described # Nothing
     \/ c = "update" /\ connected /\ tool /\ r # described
  /\ command' = c /\ offline' = local /\ release' = r /\ staged' = Empty
  /\ IF local THEN Read("metadata") ELSE Fetch("metadata")
  /\ UNCHANGED <<caching, system>>

ReadBundle ==
  /\ pc = "read"
  /\ body' \in Content /\ pc' = "got"
  /\ UNCHANGED <<request, resource, attempt, alarm, staged, caching, system>>

-----------------------------------------------------------------------------
(***************************************************************************)
(* fetch                                                                   *)
(***************************************************************************)
Connect ==
  /\ pc = "connect" /\ pc' = "stream"
  /\ UNCHANGED <<request, fetching, staged, caching, system>>

\* All the bytes that were announced, or as many as came if none were.
Delivered ==
  /\ pc = "stream"
  /\ body' \in Content /\ alarm' = FALSE /\ pc' = "got"
  /\ UNCHANGED <<request, resource, attempt, staged, caching, system>>

\* The connection fails or breaks, or the server asks to come again.
Disrupted ==
  /\ pc \in {"connect", "stream"} /\ attempt < Attempts
  /\ pc' = "pause"
  /\ UNCHANGED <<request, fetching, staged, caching, system>>

\* After two seconds, from zero.
Retry ==
  /\ pc = "pause"
  /\ attempt' = attempt + 1 /\ pc' = "connect"
  /\ UNCHANGED <<request, resource, alarm, body, staged, caching, system>>

-----------------------------------------------------------------------------
(***************************************************************************)
(* How a run ends early.                                                   *)
(***************************************************************************)

\* An error goes up to main; the finally clauses stop the timer, and remove the
\* .partial file of a program that was being saved.
Raised ==
  /\ pc' = "idle" /\ alarm' = FALSE
  /\ partial' = IF pc \in Saving THEN Nothing ELSE partial
  /\ UNCHANGED <<request, resource, attempt, body, staged, cache>>

\* (Faulty variant: the time limit is an OSError, which is retried.)
ExpireRetried ==
  /\ pc \in Fetching /\ alarm
  /\ IF attempt < Attempts
     THEN /\ alarm' = FALSE /\ pc' = "pause"
          /\ UNCHANGED <<request, resource, attempt, body, staged, caching>>
     ELSE Raised
  /\ UNCHANGED system

\* The time limit, whatever fetch is waiting for.
Expire ==
  /\ pc \in Fetching /\ alarm
  /\ Raised /\ UNCHANGED system

\* What was being done to the system may have been done, or begun.
HalfDone ==
  \/ UNCHANGED system
  \/ /\ pc = "account" /\ account' = TRUE
     /\ UNCHANGED <<programs, described, connected, tool>>
  \/ /\ pc = "copy"
     /\ \E c \in Component :
          programs[c] = Nothing /\ programs' = [programs EXCEPT ![c] = Broken]
     /\ UNCHANGED <<account, described, connected, tool>>
  \/ /\ pc = "tool" /\ tool' = TRUE
     /\ UNCHANGED <<account, programs, described, connected>>

\* A call or a check fails, or the administrator cancels or presses Ctrl+C.
Fail == pc # "idle" /\ Raised /\ HalfDone

\* Nothing is cleaned up.
Killed ==
  /\ pc # "idle"
  /\ pc' = "idle" /\ alarm' = FALSE
  /\ HalfDone
  /\ UNCHANGED <<request, resource, attempt, body, staged, caching>>

-----------------------------------------------------------------------------
(***************************************************************************)
(* What is done with the body: manifest, validate_binary, the cache.       *)
(***************************************************************************)

\* check_update says what it found in the metadata, and that is all.
Compared == command = "check-update" /\ pc' = "idle" /\ UNCHANGED fetching

\* The metadata comes first, then the components, then the questions; update
\* goes on in AgentUpdate.
Onward(done) ==
  \/ Compared
  \/ /\ command # "check-update" /\ done = Component
     /\ pc' = (IF command = "install" THEN "ask" ELSE "idle")
     /\ UNCHANGED fetching
  \/ /\ command # "check-update"
     /\ \E c \in Component \ done :
          IF offline THEN Read(c)
          ELSE resource' = c /\ pc' = "look" /\ UNCHANGED <<attempt, alarm, body>>

\* The metadata names the release that was asked for.
Metadata ==
  /\ pc = "got" /\ resource = "metadata" /\ body = release
  /\ Onward({})
  /\ UNCHANGED <<request, staged, caching, system>>

\* (Faulty variant: any program will do.)
ValidProgram(content) == content \in Release

\* A program with the hash of the metadata.
Valid(content) == content = release

\* (Faulty variant: only the programs are cleaned up.)
LookKeepingPartial ==
  /\ pc = "look"
  /\ \E kept \in SUBSET Component :
       LET left == [c \in Component |-> IF c \in kept THEN cache[c] ELSE Nothing] IN
       IF Valid(left[resource])
       THEN /\ body' = left[resource] /\ pc' = "stage" /\ cache' = left
            /\ UNCHANGED <<resource, attempt, alarm>>
       ELSE Fetch(resource) /\ cache' = [left EXCEPT ![resource] = Nothing]
  /\ UNCHANGED <<request, staged, partial, system>>

\* prepare_cache removes what is left of a program being saved, and what is a week
\* old or too large; what is still there is used if it is valid, or removed.
LookInCache ==
  /\ pc = "look" /\ partial' = Nothing
  /\ \E kept \in SUBSET Component :
       LET left == [c \in Component |-> IF c \in kept THEN cache[c] ELSE Nothing] IN
       IF Valid(left[resource])
       THEN /\ body' = left[resource] /\ pc' = "stage" /\ cache' = left
            /\ UNCHANGED <<resource, attempt, alarm>>
       ELSE Fetch(resource) /\ cache' = [left EXCEPT ![resource] = Nothing]
  /\ UNCHANGED <<request, staged, system>>

Program ==
  /\ pc = "got" /\ resource \in Component /\ Valid(body)
  /\ pc' = IF offline THEN "stage" ELSE "open"
  /\ UNCHANGED <<request, fetching, staged, caching, system>>

\* O_EXCL: a file that is there is an error (see Fail).
Open ==
  /\ pc = "open" /\ partial = Nothing
  /\ partial' = Broken /\ pc' = "write"
  /\ UNCHANGED <<request, fetching, staged, cache, system>>

Write ==
  /\ pc = "write"
  /\ partial' = body /\ pc' = "rename"
  /\ UNCHANGED <<request, fetching, staged, cache, system>>

Rename ==
  /\ pc = "rename"
  /\ cache' = [cache EXCEPT ![resource] = partial] /\ partial' = Nothing
  /\ pc' = "stage"
  /\ UNCHANGED <<request, fetching, staged, system>>

\* The caller checks the program again.
Stage ==
  /\ pc = "stage" /\ Valid(body)
  /\ staged' = [staged EXCEPT ![resource] = body]
  /\ Onward({c \in Component : staged'[c] # Nothing})
  /\ UNCHANGED <<request, caching, system>>

\* A file of the cache goes bad.
Damage(c) ==
  /\ cache[c] \in Release
  /\ cache' = [cache EXCEPT ![c] = Broken]
  /\ UNCHANGED <<pc, request, fetching, staged, partial, system>>

-----------------------------------------------------------------------------
(***************************************************************************)
(* The rest of install.                                                    *)
(***************************************************************************)

\* A usable address, a usable device id, and the word "install".
Ask ==
  /\ pc = "ask" /\ Fetch("health")
  /\ UNCHANGED <<request, staged, caching, system>>

Healthy ==
  /\ pc = "got" /\ resource = "health" /\ body # Broken
  /\ pc' = "account"
  /\ UNCHANGED <<request, fetching, staged, caching, system>>

\* useradd and the two directories; none of them may be there.
Account ==
  /\ pc = "account" /\ ~account
  /\ account' = TRUE /\ pc' = "copy"
  /\ UNCHANGED <<request, fetching, staged, caching, programs, described, connected, tool>>

Copy(c) ==
  /\ pc = "copy" /\ programs[c] = Nothing
  /\ programs' = [programs EXCEPT ![c] = staged[c]]
  /\ pc' = IF \A d \in Component : programs'[d] # Nothing THEN "describe" ELSE "copy"
  /\ UNCHANGED <<request, fetching, staged, caching, account, described, connected, tool>>

\* (Faulty variant: the metadata is copied before the programs.)
DescribeFirst ==
  /\ pc = "copy" /\ described = Nothing
  /\ described' = release
  /\ UNCHANGED <<pc, request, fetching, staged, caching, account, programs, connected, tool>>

Describe ==
  /\ pc = "describe"
  /\ described' = release /\ pc' = "connection"
  /\ UNCHANGED <<request, fetching, staged, caching, account, programs, connected, tool>>

Connection ==
  /\ pc = "connection"
  /\ connected' = TRUE /\ pc' = "tool"
  /\ UNCHANGED <<request, fetching, staged, caching, account, programs, described, tool>>

\* The script itself, which register does not look for and update does.
CopyTool ==
  /\ pc = "tool"
  /\ tool' = TRUE /\ pc' = "idle"
  /\ UNCHANGED <<request, fetching, staged, caching, account, programs, described, connected>>

InstallNext ==
  \/ \E c \in Command, local \in BOOLEAN, r \in Release : Invoke(c, local, r)
  \/ ReadBundle \/ Connect \/ Delivered \/ Disrupted \/ Retry \/ Expire \/ Fail \/ Killed
  \/ Metadata \/ LookInCache \/ Program \/ Open \/ Write \/ Rename \/ Stage
  \/ Ask \/ Healthy \/ Account \/ Describe \/ Connection \/ CopyTool
  \/ \E c \in Component : Copy(c) \/ Damage(c)

\* Only the interval timer is relied on: neither the network nor the administrator
\* need ever answer.
Fairness == WF_installVars(Expire)

InstallSpec == InstallInit /\ [][InstallNext]_installVars /\ Fairness

-----------------------------------------------------------------------------
(***************************************************************************)
(* Properties.                                                             *)
(***************************************************************************)

\* Whatever the cache holds, from another release, an interrupted run or a bad
\* disk, and whatever the network or a bundle brought: what a run goes on with is
\* what the metadata of its release promises.
StagedIsVerified == \A c \in Component : staged[c] \in {release, Nothing}

\* A description is there only beside all the programs it describes, wherever an
\* installation was cut short; register trusts the description.
DescribedIsWhole ==
  /\ described # Nothing => \A c \in Component : programs[c] = described
  /\ connected => described # Nothing

\* A program that was downloaded can be saved: no .partial file that some run left,
\* failed, cancelled or killed, is in its way.
PartialNeverBlocks == pc = "open" => partial = Nothing

\* A fetch comes to an end, however slowly the network delivers and however often
\* it is retried ("total seconds per HTTPS resource including retries").
FetchEnds == pc \in Fetching ~> pc \notin Fetching
=============================================================================
