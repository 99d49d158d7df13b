----------------------------- MODULE Selection -----------------------------
(***************************************************************************)
(* Which session a command is about (cmd/flow-indicator/sessions.go,       *)
(* current.go, pane.go): the listing and its handles, an identifier typed  *)
(* in part, the session of this directory, the latest one, and the one     *)
(* running in a pane.  An identifier is a sequence of naturals.            *)
(***************************************************************************)
EXTENDS Naturals, Sequences, FiniteSets, SequencesExt

CONSTANTS
  Streams,    \* the sessions of every harness
  About,      \* what each records of itself: id, harness, root, sidechain
  ShortLen,   \* shortIDLen
  NoRoot,
  Here,       \* the working directory of the command
  Panes,      \* herdr's panes
  Place,      \* the tab and the workspace of each
  Self,       \* the pane the command runs in
  NoStream

ASSUME SelectionConstants ==
  /\ IsFiniteSet(Streams)
  /\ \A s \in Streams : About[s].id \in Seq(Nat)
  /\ \A s, t \in Streams : About[s].id = About[t].id => s = t
  /\ ShortLen \in Nat \ {0}
  /\ NoStream \notin Streams
  /\ Self \in Panes

(* filterSessions: a thread of an agent and a sidecar without a directory  *)
(* are no sessions of the operator.                                        *)
Followable(known, here) ==
  {s \in known : ~About[s].sidechain /\ About[s].root # NoRoot /\ (here => About[s].root = Here)}

(* commonPrefixLen *)
Shared(a, b) ==
  Cardinality({n \in 1..Len(a) : n <= Len(b) /\ SubSeq(a, 1, n) = SubSeq(b, 1, n)})

(* The order the identifiers are sorted in. *)
Below(a, b) ==
  LET n == Shared(a, b)
  IN  n < Len(b) /\ (n = Len(a) \/ a[n + 1] < b[n + 1])

(* Mutant: a session is compared with the one sorted before it only. *)
Neighbours_Before(s, listed) ==
  {t \in listed \ {s} : /\ Below(About[t].id, About[s].id)
                        /\ ~\E u \in listed : Below(About[t].id, About[u].id)
                                              /\ Below(About[u].id, About[s].id)}

(* The sessions sorted next to s. *)
Neighbours(s, listed) ==
  {t \in listed \ {s} :
     ~\E u \in listed \ {s, t} :
        \/ Below(About[t].id, About[u].id) /\ Below(About[u].id, About[s].id)
        \/ Below(About[s].id, About[u].id) /\ Below(About[u].id, About[t].id)}

(* uniquePrefixes: one more than is shared with a neighbour, and never     *)
(* less than ShortLen or more than there is.                               *)
HandleOf(s, listed) ==
  LET id      == About[s].id
      lengths == {ShortLen} \cup {Shared(id, About[t].id) + 1 : t \in Neighbours(s, listed)}
      longest == CHOOSE n \in lengths : \A m \in lengths : m <= n
  IN  SubSeq(id, 1, IF longest > Len(id) THEN Len(id) ELSE longest)

(* resolveSession, of something that is no path: the one session whose     *)
(* identifier begins with it.                                              *)
Resolved(typed, known) ==
  LET matches == {s \in Followable(known, FALSE) : IsPrefix(typed, About[s].id)}
  IN  IF Cardinality(matches) = 1 THEN CHOOSE s \in matches : TRUE ELSE NoStream

(* A session is found by identifier, by directory (selectCurrent keeps a   *)
(* sidecar whose root is this one) or as the latest of all.  Which of them *)
(* was written last, and whether two were too close to tell, is left open: *)
(* any of them may be the one.                                             *)
ByIdentifier(known) ==
  {Resolved(HandleOf(s, Followable(known, FALSE)), known) : s \in Followable(known, FALSE)}
    \ {NoStream}

ByDirectory(known) == {s \in known : ~About[s].sidechain /\ About[s].root = Here}

ByRecency(known) == Followable(known, FALSE)

Chosen(known) == ByIdentifier(known) \cup ByDirectory(known) \cup ByRecency(known)

-----------------------------------------------------------------------------
(* choosePane: a named pane needs an agent in it; auto is the one agent of *)
(* this tab, or of this workspace when the tab has none.                   *)
ChosenPane(target, agents) ==
  LET tab       == {p \in agents : Place[p].tab = Place[Self].tab}
      workspace == {p \in agents : Place[p].workspace = Place[Self].workspace}
      adjacent  == IF tab # {} THEN tab ELSE workspace
  IN  IF target \in Panes THEN agents \cap {target}
      ELSE IF Cardinality(adjacent) = 1 THEN adjacent ELSE {}
=============================================================================
