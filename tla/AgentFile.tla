------------------------------- MODULE AgentFile -------------------------------
(***************************************************************************)
(* pkg/agents: the bv blurb in AGENTS.md is added, updated or removed by   *)
(* bv processes of different versions that lock the file they read (flock  *)
(* on the inode), write a complete replacement beside it and rename it over*)
(* the name, while an editor that knows of no lock changes the same file.  *)
(***************************************************************************)
EXTENDS Naturals, Sequences, FiniteSets

CONSTANTS
    Writers,     \* bv processes
    Version,     \* the blurb version each of them carries
    Edits,       \* bound: what the editor may add to the file
    MaxInodes    \* bound: files ever created in the directory

NoOne == "no one"

ASSUME AgentAssumption ==
    /\ Version \in [Writers -> Nat \ {0}]
    /\ NoOne \notin Writers
    /\ MaxInodes \in Nat \ {0}

VARIABLES
    named,     \* the inode AGENTS.md names, 0 when there is no such file
    inodes,    \* what every inode holds
    flocked,   \* who holds the flock of an inode
    made,      \* inodes created so far
    step,      \* where each process is in its operation
    call,      \* the operation, and what it has opened, read and prepared
    outcome,   \* how its last operation ended
    edited,    \* history: the editor's additions
    inGap      \* history: those made between a last verification and its rename

agentVars == <<named, inodes, flocked, made, step, call, outcome, edited, inGap>>

Blank == [text |-> {}, blurbs |-> <<>>, whole |-> FALSE]
Idle == [op |-> "none", seen |-> 0, fd |-> 0, read |-> Blank, tmp |-> 0]

AgentInit ==
    /\ named \in 0 .. 1
    /\ \E old \in {<<>>} \cup {<<v>> : v \in {Version[w] : w \in Writers}} :
          inodes = [i \in 1 .. MaxInodes |->
                       IF i = 1 THEN [text |-> {}, blurbs |-> old, whole |-> TRUE] ELSE Blank]
    /\ flocked = [i \in 1 .. MaxInodes |-> NoOne]
    /\ made = 1
    /\ step = [w \in Writers |-> "idle"] /\ call = [w \in Writers |-> Idle]
    /\ outcome = [w \in Writers |-> "none"]
    /\ edited = {} /\ inGap = {}

Future(w, blurbs) == \E k \in DOMAIN blurbs : blurbs[k] > Version[w]

Keep(w, next) == step' = [step EXCEPT ![w] = next]

\* The operation is over: the lock is released and the handle closed.
Finish(w, how) ==
    /\ Keep(w, "idle")
    /\ outcome' = [outcome EXCEPT ![w] = how]
    /\ call' = [call EXCEPT ![w] = Idle]
    /\ flocked' = [i \in 1 .. MaxInodes |-> IF flocked[i] = w THEN NoOne ELSE flocked[i]]

-----------------------------------------------------------------------------
(* What EnsureBlurb decides from an unlocked look at the file, and what    *)
(* the command line asks for.                                              *)
Wanted(w) ==
    IF named = 0 THEN {"create"}
    ELSE LET blurbs == inodes[named].blurbs
         IN  {"remove"} \cup (CASE blurbs = <<>> -> {"append"}
                                [] blurbs # <<>> /\ blurbs # <<Version[w]>> -> {"update"}
                                [] OTHER -> {})

Begin(w) ==
    /\ step[w] = "idle" /\ outcome[w] = "none"
    /\ \E op \in Wanted(w) :
          /\ call' = [call EXCEPT ![w].op = op]
          /\ Keep(w, IF op = "create" THEN "fill" ELSE "resolve")
    /\ UNCHANGED <<named, inodes, flocked, made, outcome, edited, inGap>>

resolveAgentMutationPath(w) ==
    /\ step[w] = "resolve"
    /\ IF named = 0 THEN Finish(w, "failed")
       ELSE /\ call' = [call EXCEPT ![w].seen = named]
            /\ Keep(w, "open")
            /\ UNCHANGED <<outcome, flocked>>
    /\ UNCHANGED <<named, inodes, made, edited, inGap>>

OpenForMutation(w) ==
    /\ step[w] = "open"
    /\ IF named = 0 THEN Finish(w, "failed")
       ELSE /\ call' = [call EXCEPT ![w].fd = named]
            /\ Keep(w, "lock")
            /\ UNCHANGED <<outcome, flocked>>
    /\ UNCHANGED <<named, inodes, made, edited, inGap>>

LockExclusive(w) ==
    /\ step[w] = "lock" /\ flocked[call[w].fd] = NoOne
    /\ flocked' = [flocked EXCEPT ![call[w].fd] = w]
    /\ Keep(w, "read")
    /\ UNCHANGED <<named, inodes, made, call, outcome, edited, inGap>>

LockTimesOut(w) ==
    /\ step[w] = "lock" /\ flocked[call[w].fd] # NoOne
    /\ Finish(w, "failed")
    /\ UNCHANGED <<named, inodes, made, edited, inGap>>

-----------------------------------------------------------------------------
\* Fault: the blurb is appended to whatever is there.
AcceptsAll(w, op, blurbs) == TRUE

(* What the three operations refuse under the lock, whatever the look      *)
(* before it showed.                                                       *)
Accepts(w, op, blurbs) ==
    IF op = "append" THEN blurbs = <<>> ELSE ~Future(w, blurbs)

NewBlurbs(w, op, blurbs) ==
    CASE op = "append" -> Append(blurbs, Version[w])
      [] op \in {"update", "create"} -> <<Version[w]>>
      [] op = "remove" -> <<>>

(* With the lock held: a displaced inode is given up and the name resolved *)
(* again, a name redirected in between is refused, the bytes are read.     *)
ReadLocked(w) ==
    LET c == call[w]
        now == inodes[c.fd]
    IN  /\ step[w] = "read"
        /\ \/ /\ named # 0 /\ c.fd # named
              /\ flocked' = [flocked EXCEPT ![c.fd] = NoOne]
              /\ Keep(w, "resolve")
              /\ call' = [call EXCEPT ![w] = [Idle EXCEPT !.op = c.op]]
              /\ UNCHANGED outcome
           \/ /\ \/ named = 0
                 \/ c.fd = named /\ (c.seen # c.fd \/ ~Accepts(w, c.op, now.blurbs))
              /\ Finish(w, "failed")
           \/ /\ c.fd = named /\ c.seen = c.fd /\ Accepts(w, c.op, now.blurbs)
              /\ IF c.op = "remove" /\ now.blurbs = <<>>
                 THEN Finish(w, "unchanged")
                 ELSE /\ call' = [call EXCEPT ![w].read = now]
                      /\ Keep(w, "fill")
                      /\ UNCHANGED <<outcome, flocked>>
        /\ UNCHANGED <<named, inodes, made, edited, inGap>>

(* The replacement: an empty private file, then all of its bytes, synced.  *)
CreateReplacement(w) ==
    /\ step[w] = "fill" /\ call[w].tmp = 0 /\ made < MaxInodes
    /\ made' = made + 1
    /\ call' = [call EXCEPT ![w].tmp = made + 1]
    /\ UNCHANGED <<named, inodes, flocked, step, outcome, edited, inGap>>

WriteReplacement(w) ==
    LET c == call[w]
    IN  /\ step[w] = "fill" /\ c.tmp # 0
        /\ inodes' = [inodes EXCEPT ![c.tmp] =
                         [text |-> c.read.text, whole |-> TRUE,
                          blurbs |-> NewBlurbs(w, c.op, c.read.blurbs)]]
        /\ Keep(w, IF c.op = "create" THEN "publish" ELSE "verify")
        /\ UNCHANGED <<named, flocked, made, call, outcome, edited, inGap>>

-----------------------------------------------------------------------------
\* Fault: the name is compared, the bytes are not read again.
SameInode(c) == named = c.fd

Unchanged(c) == named = c.fd /\ inodes[c.fd] = c.read

verifyUnchanged(w) ==
    /\ step[w] = "verify"
    /\ IF Unchanged(call[w])
       THEN Keep(w, "rename") /\ UNCHANGED <<call, outcome, flocked>>
       ELSE Finish(w, "failed")
    /\ UNCHANGED <<named, inodes, made, edited, inGap>>

commitAgentReplacement(w) ==
    /\ step[w] = "rename"
    /\ named' = call[w].tmp
    /\ Keep(w, "check")
    /\ UNCHANGED <<inodes, flocked, made, call, outcome, edited, inGap>>

CheckPublished(w) ==
    /\ step[w] = "check"
    /\ Finish(w, IF named = call[w].tmp THEN "written" ELSE "failed")
    /\ UNCHANGED <<named, inodes, made, edited, inGap>>

\* RENAME_NOREPLACE.
publishAgentFileExclusive(w) ==
    /\ step[w] = "publish"
    /\ IF named = 0
       THEN named' = call[w].tmp /\ Keep(w, "check") /\ UNCHANGED <<call, outcome, flocked>>
       ELSE Finish(w, "failed") /\ UNCHANGED named
    /\ UNCHANGED <<inodes, made, edited, inGap>>

\* The kernel releases the flock of a dead process; its private file remains.
AgentCrash(w) ==
    /\ step[w] # "idle"
    /\ Finish(w, "crashed")
    /\ UNCHANGED <<named, inodes, made, edited, inGap>>

-----------------------------------------------------------------------------
(* An editor that ignores locks: saves in place or by renaming a new file. *)
Gap == \E w \in Writers : step[w] = "rename"

EditorSaves(e) ==
    /\ e \notin edited /\ named # 0
    /\ edited' = edited \cup {e}
    /\ inGap' = IF Gap THEN inGap \cup {e} ELSE inGap
    /\ LET saved == [inodes[named] EXCEPT !.text = @ \cup {e}]
       IN  \/ inodes' = [inodes EXCEPT ![named] = saved] /\ UNCHANGED <<named, made>>
           \/ /\ made < MaxInodes /\ made' = made + 1
              /\ inodes' = [inodes EXCEPT ![made + 1] = saved]
              /\ named' = made + 1
    /\ UNCHANGED <<flocked, step, call, outcome>>

AgentStep(w) ==
    \/ Begin(w) \/ resolveAgentMutationPath(w) \/ OpenForMutation(w)
    \/ LockExclusive(w) \/ LockTimesOut(w) \/ ReadLocked(w)
    \/ CreateReplacement(w) \/ WriteReplacement(w)
    \/ verifyUnchanged(w) \/ commitAgentReplacement(w) \/ CheckPublished(w)
    \/ publishAgentFileExclusive(w) \/ AgentCrash(w)

AgentNext == (\E w \in Writers : AgentStep(w)) \/ (\E e \in Edits : EditorSaves(e))

AgentSpec == AgentInit /\ [][AgentNext]_agentVars

-----------------------------------------------------------------------------
Steps == {"idle", "resolve", "open", "lock", "read", "fill", "verify", "rename",
          "check", "publish"}

AgentTypeOK ==
    /\ named \in 0 .. MaxInodes /\ made \in 1 .. MaxInodes
    /\ step \in [Writers -> Steps]
    /\ \A i \in 1 .. MaxInodes :
          /\ inodes[i].text \subseteq Edits
          /\ flocked[i] # NoOne => flocked[i] \in Writers /\ step[flocked[i]] # "idle"
    /\ \A w \in Writers : step[w] \in {"verify", "rename", "check", "publish"} => call[w].tmp # 0

(* A reader of AGENTS.md, and a crash at any step, see no file or a whole  *)
(* one (writeVerifiedReplacement, writeFileDirectExclusive), and however   *)
(* many processes decide to add the blurb before they hold the lock, the   *)
(* file never carries two (AppendBlurbToFile checks again).                *)
NamedFileIsWhole == named # 0 => inodes[named].whole /\ Len(inodes[named].blurbs) <= 1

(* What an editor saves is only ever lost in the documented gap between the*)
(* last verification and the rename (writeVerifiedReplacement).            *)
NoEditLostOutsideGap == named # 0 => edited \ inGap \subseteq inodes[named].text

(* AGENTS.md is a whole file at any moment, and of what an editor saves    *)
(* nothing is lost outside the gap nobody can close (EnsureBlurb).         *)
AgentsFileSurvives == NamedFileIsWhole /\ NoEditLostOutsideGap

(* As long as no editor hits that gap, an older bv never puts its blurb in *)
(* the place of a newer one (rejectFutureBlurbBlocks under the lock).      *)
NoDowngrade ==
    [][named # 0 /\ named' # 0 /\ inGap = {} =>
          \A k \in DOMAIN inodes[named].blurbs :
              inodes'[named'].blurbs = <<>> \/
              \E j \in DOMAIN inodes'[named'].blurbs :
                  inodes'[named'].blurbs[j] >= inodes[named].blurbs[k]]_agentVars
=============================================================================
