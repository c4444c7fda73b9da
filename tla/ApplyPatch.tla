----------------------------- MODULE ApplyPatch -----------------------------
(***************************************************************************)
(* One apply_patch call with the file evidence captured around it: the     *)
(* operations of a patch are checked for conflicts, then applied one by    *)
(* one, each failing on its own; an update whose chunks are out of order   *)
(* is retried in file order when every chunk has one place only.  Somebody *)
(* else may write a file meanwhile.  A line is a number, with 100 added    *)
(* when it has trailing blanks; a chunk adds 10 to each line it matches.   *)
(* Path l is a symbolic link to a, path dc lies in directory d.            *)
(***************************************************************************)
EXTENDS Naturals, Sequences, FiniteSets, SequencesExt

CONSTANTS
    Patches,     \* patches: sequences of operations
    Texts,       \* texts of file a before the call
    MaxEvidence, \* MAX_FILE_EVIDENCE_FILES
    MaxEdits     \* bound: writes of somebody else, and failing steps
Paths == {"a", "b", "l", "d", "dc"}
\* No text: no such file, a directory, a symbolic link.
Missing == <<0>>
Dir == <<200>>
Link == <<300>>
Unavailable == <<500>>

VARIABLES
    disk,      \* what each path holds
    before,    \* disk when the call began; ghost
    patch,     \* the parsed patch
    at,        \* operation in progress, 0 before the evidence is taken
    pending,   \* the new text of the operation in progress, computed not written
    applied, failed, recovered, \* the report
    partial,   \* failed operations whose changes so far are listed
    evidence,  \* PendingFileEvidence and CompletedFileEvidence
    edited,    \* ghost: paths somebody else wrote
    edits

patchVars == <<disk, before, patch, at, pending, applied, failed, recovered, partial, evidence,
               edited, edits>>
report == <<applied, failed, recovered, partial>>
outside == <<before, patch, evidence, edited>>
Nothing == <<400>>

real(d, p) == IF p = "l" /\ d["l"] = Link THEN "a" ELSE p
isText(c) == c \notin {Missing, Dir, Link}
contents(d, p) == d[real(d, p)]
\* A write makes missing parents and follows links.
writable(d, p) == IF p = "dc" THEN d["d"] \in {Missing, Dir} ELSE contents(d, p) # Dir
written(d, p, c) ==
    [q \in Paths |-> IF q = real(d, p) THEN c ELSE IF p = "dc" /\ q = "d" THEN Dir ELSE d[q]]

-----------------------------------------------------------------------------
(* Matching.                                                               *)

trim(x) == IF x > 100 THEN x - 100 ELSE x
same(x, y, exact) == IF exact THEN x = y ELSE trim(x) = trim(y)
starts(lines, old, exact) ==
    {s \in 1..(Len(lines) + 1 - Len(old)) :
        \A i \in 1..Len(old) : same(lines[s + i - 1], old[i], exact)}
least(S) == CHOOSE s \in S : \A t \in S : s <= t

\* The first matcher that finds anything decides; two places are none.
locate(lines, old) ==
    LET S == starts(lines, old, TRUE) T == starts(lines, old, FALSE)
        only(X) == IF Cardinality(X) = 1 THEN least(X) ELSE 0
    IN  IF S # {} THEN only(S) ELSE only(T)

replaceAt(lines, s, old) ==
    [i \in DOMAIN lines |-> IF i \in s..(s + Len(old) - 1) THEN old[i - s + 1] + 10 ELSE lines[i]]

\* Upstream: each chunk at its first place after the one before it.
derive(lines, chunks) ==
    LET step(acc, old) ==
            LET S == {s \in starts(lines, old, TRUE) : s >= acc.cursor}
                T == {s \in starts(lines, old, FALSE) : s >= acc.cursor}
                s == IF S # {} THEN least(S) ELSE IF T # {} THEN least(T) ELSE 0
            IN  IF acc.text = Nothing \/ s = 0 THEN [text |-> Nothing, cursor |-> 0]
                ELSE [text |-> replaceAt(acc.text, s, old), cursor |-> s + Len(old)]
    IN  FoldLeft(step, [text |-> lines, cursor |-> 1], chunks).text

reorder_unique_nonoverlapping_hunks(lines, chunks) ==
    LET n == Len(chunks)
        place(i) == locate(lines, chunks[i])
        stop(i) == place(i) + Len(chunks[i])
        order == SortSeq([i \in 1..n |-> i], LAMBDA i, j : place(i) < place(j))
    IN  IF \/ n < 2 \/ \E i \in 1..n : place(i) = 0
           \/ \E i \in 1..(n - 1) : stop(order[i]) > place(order[i + 1])
           \/ order = [i \in 1..n |-> i]
        THEN Nothing ELSE [i \in 1..n |-> chunks[order[i]]]

-----------------------------------------------------------------------------
(* The plan: replacements and conflicts.                                   *)

hunk == patch[at]
targets(i) == {patch[i].path} \cup (IF patch[i].kind = "move" THEN {patch[i].to} ELSE {})
replaces(i) == /\ i \in 1..(Len(patch) - 1) /\ patch[i].kind = "delete"
               /\ patch[i + 1].kind = "add" /\ patch[i + 1].path = patch[i].path
overlap(p, q) == p = q \/ {p, q} = {"d", "dc"}

\* Mutant: paths are compared as they are spelled.
KeyAsSpelled(p) == p

physical_path_key(p) == real(before, p)

conflicting_hunks ==
    {i \in 1..Len(patch) : \E j \in 1..Len(patch) :
        /\ i # j /\ ~(replaces(i) /\ j = i + 1) /\ ~(replaces(j) /\ i = j + 1)
        /\ \E p \in targets(i), q \in targets(j) :
              overlap(physical_path_key(p), physical_path_key(q))}

-----------------------------------------------------------------------------
(* The call.                                                               *)

last(i) == IF patch[i].kind = "move" THEN patch[i].to ELSE patch[i].path
capture_text_snapshot(d, p) == IF isText(contents(d, p)) THEN contents(d, p)
                  ELSE IF contents(d, p) = Missing THEN Missing ELSE Unavailable

prepare_file_evidence ==
    /\ at = 0 /\ at' = 1
    /\ evidence' = (IF Len(patch) > MaxEvidence THEN <<>>
                    ELSE [i \in 1..Len(patch) |->
                            [before |-> capture_text_snapshot(disk, patch[i].path), after |-> Missing]])
    /\ before' = disk
    /\ UNCHANGED <<disk, patch, pending, report, edited, edits>>

next == at' = at + 1 /\ pending' = Nothing
succeeds(s) == /\ applied' = applied \cup s /\ next
               /\ UNCHANGED <<failed, recovered, partial>>
hunk_fails(i) == failed' = failed \cup {i} /\ next /\ UNCHANGED <<applied, recovered, partial>>
in_progress == at \in 1..Len(patch) /\ at \notin conflicting_hunks
plain == in_progress /\ ~replaces(at) /\ ~replaces(at - 1)

skip_conflict ==
    /\ at \in 1..Len(patch) /\ at \in conflicting_hunks /\ hunk_fails(at)
    /\ UNCHANGED <<disk, outside, edits>>

skip_replaced ==
    /\ in_progress /\ replaces(at - 1) /\ next
    /\ UNCHANGED <<disk, report, outside, edits>>

\* Delete and add of one path: staged beside the file, then renamed over it.
replace_regular_file ==
    /\ in_progress /\ replaces(at)
    /\ IF isText(disk[hunk.path])
       THEN /\ disk' = [disk EXCEPT ![hunk.path] = patch[at + 1].text]
            /\ succeeds({at, at + 1})
       ELSE hunk_fails(at) /\ UNCHANGED disk
    /\ UNCHANGED <<outside, edits>>

add_file ==
    /\ plain /\ hunk.kind = "add"
    /\ IF writable(disk, hunk.path)
       THEN disk' = written(disk, hunk.path, hunk.text) /\ succeeds({at})
       ELSE hunk_fails(at) /\ UNCHANGED disk
    /\ UNCHANGED <<outside, edits>>

delete_file ==
    /\ plain /\ hunk.kind = "delete"
    /\ IF isText(contents(disk, hunk.path))
       THEN disk' = [disk EXCEPT ![hunk.path] = Missing] /\ succeeds({at})
       ELSE hunk_fails(at) /\ UNCHANGED disk
    /\ UNCHANGED <<outside, edits>>

\* The new text is computed from the file as it is; when that fails nothing
\* was written, and the chunks may be tried in file order.
compute_update ==
    LET lines == contents(disk, hunk.path)
        first == derive(lines, hunk.chunks)
        sorted == reorder_unique_nonoverlapping_hunks(lines, hunk.chunks)
        second == IF sorted = Nothing THEN Nothing ELSE derive(lines, sorted)
    IN  /\ plain /\ hunk.kind \in {"update", "move"} /\ pending = Nothing
        /\ IF isText(lines) /\ (first # Nothing \/ second # Nothing)
           THEN /\ pending' = (IF first # Nothing THEN first ELSE second)
                /\ recovered' = (IF first # Nothing THEN recovered ELSE recovered \cup {at})
                /\ UNCHANGED <<at, applied, failed, partial>>
           ELSE hunk_fails(at)
        /\ UNCHANGED <<disk, outside, edits>>

write_update ==
    /\ plain /\ pending # Nothing
    /\ IF writable(disk, last(at))
       THEN /\ disk' = LET d == written(disk, last(at), pending)
                       IN  IF hunk.kind = "move" THEN [d EXCEPT ![hunk.path] = Missing] ELSE d
            /\ succeeds({at})
       ELSE /\ failed' = failed \cup {at} /\ recovered' = recovered \ {at} /\ next
            /\ UNCHANGED <<disk, applied, partial>>
    /\ UNCHANGED <<outside, edits>>

\* Writing fails, or the source of a move stays: what was done is listed.
write_failed ==
    /\ plain /\ edits < MaxEdits /\ edits' = edits + 1 /\ next
    /\ IF pending # Nothing /\ hunk.kind = "move" /\ writable(disk, hunk.to)
       THEN disk' = written(disk, hunk.to, pending) /\ partial' = partial \cup {at}
       ELSE UNCHANGED <<disk, partial>>
    /\ failed' = failed \cup {at} /\ recovered' = recovered \ {at}
    /\ UNCHANGED <<applied, outside>>

complete_file_evidence ==
    /\ at = Len(patch) + 1 /\ at' = Len(patch) + 2
    /\ evidence' = [i \in DOMAIN evidence |->
                       [evidence[i] EXCEPT !.after = capture_text_snapshot(disk, last(i))]]
    /\ UNCHANGED <<disk, before, patch, pending, report, edited, edits>>

\* Another process writes a file.
edit(p) ==
    /\ at <= Len(patch) + 1 /\ edits < MaxEdits /\ edits' = edits + 1
    /\ isText(disk[p]) /\ disk' = [disk EXCEPT ![p] = <<8>>]
    /\ edited' = edited \cup {p}
    /\ UNCHANGED <<before, patch, at, pending, report, evidence>>

PatchInit ==
    /\ patch \in Patches
    /\ \E t \in Texts : disk = [p \in Paths |-> CASE p = "a" -> t [] p = "l" -> Link [] OTHER -> Missing]
    /\ before = disk /\ at = 0 /\ pending = Nothing
    /\ applied = {} /\ failed = {} /\ recovered = {} /\ partial = {}
    /\ evidence = <<>> /\ edited = {} /\ edits = 0

PatchNext ==
    \/ prepare_file_evidence \/ skip_conflict \/ skip_replaced \/ replace_regular_file
    \/ add_file \/ delete_file \/ compute_update \/ write_update \/ write_failed
    \/ complete_file_evidence \/ \E p \in {"a", "b"} : edit(p)

-----------------------------------------------------------------------------
\* Each chunk at the only place where it fits, as it stands or trimmed.
Placed(lines, chunks) ==
    [i \in DOMAIN lines |->
        IF \E c \in 1..Len(chunks), exact \in BOOLEAN :
               \E s \in starts(lines, chunks[c], exact) :
                  /\ starts(lines, chunks[c], exact) = {s}
                  /\ i \in s..(s + Len(chunks[c]) - 1)
        THEN trim(lines[i]) + 10 ELSE lines[i]]

\* What an operation alone makes of the files as they were.
effect(i) ==
    LET x == patch[i]
        new == IF x.kind \notin {"update", "move"} THEN Nothing
               ELSE IF i \notin recovered /\ derive(contents(before, x.path), x.chunks) # Nothing
               THEN derive(contents(before, x.path), x.chunks)
               ELSE Placed(contents(before, x.path), x.chunks)
        put(p, c) == {<<real(before, p), c>>} \cup (IF p = "dc" THEN {<<"d", Dir>>} ELSE {})
        drop == IF i \in partial THEN {} ELSE {<<x.path, Missing>>}
    IN  CASE x.kind = "add" -> put(x.path, x.text)
          [] x.kind = "delete" -> IF replaces(i) THEN {} ELSE drop
          [] x.kind = "update" -> put(x.path, new)
          [] x.kind = "move" -> put(x.to, new) \cup drop

\* Paths that operations on files somebody else wrote reach.
reached(i) == {p \in Paths : \E q \in targets(i) : p \in {q, real(before, q)} \/ (p = "d" /\ q = "dc")}
tainted == edited \cup UNION {reached(i) : i \in {j \in 1..Len(patch) : reached(j) \cap edited # {}}}

finished == at = Len(patch) + 2

\* The report is the truth: every file somebody else left alone holds what
\* the operations reported as applied, or listed as partly applied, make of
\* it one by one, and every other file is as it was; no operation of the
\* patch disturbs another, under whatever name they reach a file.
ReportIsTruth ==
    finished => \A p \in Paths \ tainted :
        LET changes == {e \in UNION {effect(i) : i \in applied \cup partial} : e[1] = p}
        IN  IF changes = {} THEN disk[p] = before[p] ELSE \E e \in changes : disk[p] = e[2]

\* The captured evidence agrees with the report: a failed operation that
\* listed no change shows the same text before and after, an applied one
\* that kept its path shows another text unless it wrote the same.
EvidenceAgrees ==
    finished /\ edited = {} => \A i \in DOMAIN evidence :
        /\ (i \in failed \ partial /\ patch[i].kind # "move") =>
                evidence[i].before = evidence[i].after
        /\ (i \in applied /\ patch[i].kind = "update") =>
                evidence[i].after # evidence[i].before

\* What the agent is told and what the history keeps of a patch is what
\* happened to the files.
PatchIsHonest == ReportIsTruth /\ EvidenceAgrees
=============================================================================
