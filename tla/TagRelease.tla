----------------------------- MODULE TagRelease -----------------------------
(***************************************************************************)
(* src/x-test/utils/tag-release.py: one invocation tags every repository   *)
(* of a project structure file.  main clones the repositories in the       *)
(* file's order, checks that every submodule of each one points at the     *)
(* HEAD cloned for the repository it names, and only then tags all of      *)
(* them, pushes the tags (--push-tags) and posts a GitHub release          *)
(* (--release).  Each git command runs with check=True, so a failing one   *)
(* ends the script with a traceback (exit status 1) wherever it is.        *)
(* Commits are numbered along a repository's branch, 0 the oldest and Tip  *)
(* the branch head; a submodule entry is the module url it names and the   *)
(* commit its gitlink records.                                             *)
(***************************************************************************)
EXTENDS Integers, Sequences, SequencesExt

CONSTANTS
    Repos,      \* the repositories of structure.json (model values)
    RepoOrder,  \* struct_data["repos"], in the file's order
    External,   \* a submodule url that no repository of the file has
    Tip,        \* the commit at the head of each cloned branch
    MaxModules, \* bound on the [submodule] sections of one .gitmodules
    Faults,     \* whether git commands and the release post may fail
    None        \* no "commit" key in structure.json (model value)

ASSUME /\ RepoOrder \in Seq(Repos) /\ ToSet(RepoOrder) = Repos
       /\ IsInjective(RepoOrder)
       /\ External \notin Repos /\ Tip \in Nat /\ MaxModules \in Nat
       /\ Faults \in BOOLEAN

Commits == 0..Tip
Phases == {"start", "clone", "verify", "tag", "push", "release", "done"}

\* The submodule sections of the .gitmodules of repository r.
Section(r) == [url : (Repos \ {r}) \cup {External}, sha : Commits]

VARIABLES
    opts,       \* the command line: empty tag name, --push-tags, --release, token
    commit,     \* repo_data.get("commit") of each repository
    modules,    \* the [submodule] sections of each repository, in file order
    head,       \* repo_data["head sha"] of each cloned repository
    errors,     \* the repositories in verification_errors
    localTag,   \* repositories whose clone has the tag (git tag)
    remoteTag,  \* repositories whose origin has the tag (git push origin)
    released,   \* repositories with a GitHub release of the tag
    pc,         \* the loop of main that runs
    todo,       \* the repositories that loop has still to handle
    exit        \* the exit status, None while running

vars == <<opts, commit, modules, head, errors, localTag, remoteTag, released,
          pc, todo, exit>>

Init ==
    /\ opts \in [tagEmpty : BOOLEAN, push : BOOLEAN, release : BOOLEAN,
                 token : BOOLEAN]
    /\ commit \in [Repos -> Commits \cup {None}]
    /\ modules \in [Repos -> BoundedSeq(UNION {Section(r) : r \in Repos},
                                      MaxModules)]
    /\ \A r \in Repos : modules[r] \in Seq(Section(r))
    /\ head = [r \in Repos |-> None]
    /\ errors = {} /\ localTag = {} /\ remoteTag = {} /\ released = {}
    /\ pc = "start" /\ todo = <<>> /\ exit = None

-----------------------------------------------------------------------------
(* Helpers                                                                 *)

\* A command of the script succeeds, or fails when Faults holds.
Outcome == IF Faults THEN BOOLEAN ELSE {TRUE}

\* Fault variant of _clone_repo: the "commit" key is ignored and the
\* branch tip is kept.
HeadOfTip(r) == Tip

\* _clone_repo: a shallow clone of the branch, or a full clone and
\* `git checkout <commit>`; `git rev-parse HEAD` gives the head sha.
HeadOf(r) == IF commit[r] = None THEN Tip ELSE commit[r]

\* referenced_sha != referenced_repo["head sha"] is a mismatch.
Matches(s) == s.sha = head[s.url]

\* The sections loop of _verify_modules_consistency: a url missing from
\* repo_lut returns True at once; the first mismatch returns False.
RECURSIVE VerifyModulesConsistency(_)
VerifyModulesConsistency(secs) ==
    IF secs = <<>> THEN TRUE
    ELSE LET s == Head(secs) IN
         CASE s.url \notin Repos -> TRUE
           [] ~Matches(s)        -> FALSE
           [] OTHER              -> VerifyModulesConsistency(Tail(secs))

\* Fault variant of main: the push loop runs before the tag loop.
NextPhasePushFirst == [clone |-> "verify", verify |-> "push", push |-> "tag",
                       tag |-> "release", release |-> "done"]

\* The order of the loops of main.
NextPhase == [clone |-> "verify", verify |-> "tag", tag |-> "push",
              push |-> "release", release |-> "done"]

\* The loops main runs: --push-tags and --release gate the last two.
Runs(ph) == CASE ph = "push"    -> opts.push
              [] ph = "release" -> opts.release
              [] OTHER          -> TRUE

RECURSIVE Following(_)
Following(ph) ==
    IF ph = "done" \/ Runs(NextPhase[ph]) THEN NextPhase[ph]
    ELSE Following(NextPhase[ph])

\* A loop is done: start the next one over the repositories, or return 0.
EndLoop ==
    LET ph == Following(pc) IN
    /\ pc' = ph
    /\ todo' = IF ph = "done" THEN <<>> ELSE RepoOrder
    /\ exit' = IF ph = "done" THEN 0 ELSE None

\* Fault variant: the push loop runs git push without check=True.
OnFailureLogged(ph) ==
    IF ph = "push" THEN {"continue"} ELSE
    IF ph = "release" THEN {"continue", "crash"} ELSE {"crash"}

\* A failing command: check=True raises CalledProcessError, which ends the
\* script.  A release post that is answered but not ok is only logged
\* (_error) and the loop goes on; requests.post raising (no connection)
\* ends the script.
OnFailure(ph) == IF ph = "release" THEN {"continue", "crash"} ELSE {"crash"}

Fail == /\ pc' = "done" /\ todo' = <<>> /\ exit' = 1

-----------------------------------------------------------------------------
(* main                                                                    *)

\* An empty tag name returns 1; otherwise the clone loop starts.
Start ==
    /\ pc = "start"
    /\ IF opts.tagEmpty THEN Fail
       ELSE pc' = "clone" /\ todo' = RepoOrder /\ exit' = None
    /\ UNCHANGED <<opts, commit, modules, head, errors, localTag, remoteTag,
                   released>>

\* _clone_repo of the next repository: git clone, git checkout and git
\* rev-parse HEAD with check=True.
CloneRepo ==
    /\ pc = "clone" /\ todo # <<>>
    /\ LET r == Head(todo) IN
       \E ok \in Outcome :
         IF ok THEN /\ head' = [head EXCEPT ![r] = HeadOf(r)]
                    /\ todo' = Tail(todo) /\ UNCHANGED <<pc, exit>>
         ELSE Fail /\ UNCHANGED head
    /\ UNCHANGED <<opts, commit, modules, errors, localTag, remoteTag, released>>

\* _verify_modules_consistency of the next repository; each section runs
\* `git submodule status <path>` with check=True.
VerifyRepo ==
    /\ pc = "verify" /\ todo # <<>>
    /\ LET r == Head(todo) IN
       \E ok \in Outcome :
         IF ok \/ modules[r] = <<>>
         THEN /\ errors' = IF VerifyModulesConsistency(modules[r]) THEN errors
                           ELSE errors \cup {r}
              /\ todo' = Tail(todo) /\ UNCHANGED <<pc, exit>>
         ELSE Fail /\ UNCHANGED errors
    /\ UNCHANGED <<opts, commit, modules, head, localTag, remoteTag, released>>

\* After the verify loop: an inconsistency returns 1, and so does --release
\* without --github-token.
VerifyDone ==
    /\ pc = "verify" /\ todo = <<>>
    /\ IF errors # {} \/ (opts.release /\ ~opts.token) THEN Fail ELSE EndLoop
    /\ UNCHANGED <<opts, commit, modules, head, errors, localTag, remoteTag,
                   released>>

\* git tag <name>, git push origin <name>, or the POST of a release whose
\* target_commitish is the repository's head sha.
Command(r) ==
    CASE pc = "tag"     -> /\ localTag' = localTag \cup {r}
                           /\ UNCHANGED <<remoteTag, released>>
      [] pc = "push"    -> /\ remoteTag' = remoteTag \cup {r}
                           /\ UNCHANGED <<localTag, released>>
      [] pc = "release" -> /\ released' = released \cup {r}
                           /\ UNCHANGED <<localTag, remoteTag>>

\* One step of the tag, push or release loop.
LoopStep ==
    /\ pc \in {"tag", "push", "release"} /\ todo # <<>>
    /\ LET r == Head(todo) IN
       \E ok \in Outcome, how \in OnFailure(pc) :
         CASE ok -> Command(r) /\ todo' = Tail(todo) /\ UNCHANGED <<pc, exit>>
           [] how = "continue" ->
                /\ todo' = Tail(todo) /\ UNCHANGED <<pc, exit>>
                /\ UNCHANGED <<localTag, remoteTag, released>>
           [] OTHER -> Fail /\ UNCHANGED <<localTag, remoteTag, released>>
    /\ UNCHANGED <<opts, commit, modules, head, errors>>

LoopDone ==
    /\ pc \in {"clone", "tag", "push", "release"} /\ todo = <<>>
    /\ EndLoop
    /\ UNCHANGED <<opts, commit, modules, head, errors, localTag, remoteTag,
                   released>>

Next == Start \/ CloneRepo \/ VerifyRepo \/ VerifyDone \/ LoopStep \/ LoopDone

Spec == Init /\ [][Next]_vars

-----------------------------------------------------------------------------
(* Properties                                                              *)

\* Types; a tag reaches origin only from a clone that has it: the push
\* loop runs after the tag loop has tagged every repository.
TypeOK ==
    /\ head \in [Repos -> Commits \cup {None}]
    /\ errors \subseteq Repos /\ released \subseteq Repos
    /\ remoteTag \subseteq localTag /\ localTag \subseteq Repos
    /\ pc \in Phases /\ todo \in Seq(Repos) /\ exit \in {None, 0, 1}

\* The head structure.json asks for: its "commit", or the branch tip.
Wanted(r) == IF commit[r] = None THEN Tip ELSE commit[r]

\* What the script means to check: every submodule that is a repository
\* of the file points at the commit the file asks for that repository.
Consistent(r) ==
    \A i \in DOMAIN modules[r] :
        LET s == modules[r][i] IN s.url \in Repos => s.sha = Wanted(s.url)

\* _verify_modules_consistency reports no false inconsistency: a repository
\* lands in verification_errors only if one of its submodules that is a
\* repository of the file points elsewhere than the commit structure.json
\* asks for it.  This relates the clone loop (_clone_repo's checkout and
\* rev-parse) to the comparison of the verify loop.
VerifySound ==
    \A r \in errors : ~Consistent(r)

\* Exit status 0 means the tag is on every repository, and on every origin
\* under --push-tags: the tag and push loops stop the script at the first
\* failing git command.
ExitZeroMeansTagged ==
    exit = 0 => /\ localTag = Repos
                /\ opts.push => remoteTag = Repos

\* A repository that gets tagged has every submodule of the file pointing
\* at the head cloned for it: the verify loop runs over every section of
\* every .gitmodules before the first git tag.
TaggedOnlyConsistent ==
    \A r \in localTag : Consistent(r)

=============================================================================
