--------------------------- MODULE NegativeMemory ---------------------------
(***************************************************************************)
(* What TIM-MARS remembers of people who are not the selected one          *)
(* (hard_negative_memory.py): prototypes staged on a first sight beside a  *)
(* trusted lock, committed on a later one, and the ways they leave again.  *)
(*                                                                         *)
(* An entry is [look, obs, selected, age]; the merged prototype keeps its  *)
(* look, obs stops at what a commit needs, age counts updates since the    *)
(* entry was last seen and stops just past the age that retires it.        *)
(***************************************************************************)
EXTENDS PositiveMemory

\* The entries of s at the positions I, in their order.
Kept(s, I) ==
  LET upTo[n \in 0 .. Len(s)] ==
        IF n = 0 THEN <<>>
        ELSE IF n \in I THEN Append(upTo[n - 1], s[n]) ELSE upTo[n - 1]
  IN  upTo[Len(s)]

EmptyNegative == [committed |-> <<>>, pending |-> <<>>]

Alike(entry, look) == Sim[<<entry.look, look>>] >= Cfg.negativeCandidate

NewEntry(look, selectedId) ==
  [look |-> look, obs |-> 1, selected |-> {selectedId}, age |-> 0]

SeenAgain(entry, selectedId) ==
  [entry EXCEPT !.obs = IF @ < Cfg.negativeConfirm THEN @ + 1 ELSE @,
                !.selected = @ \cup {selectedId}, !.age = 0]

NegativeSim(n, look) == BestSim({e.look : e \in Entries(n.committed)}, look)

\* One more tracker frame has passed.
Aged(s) == [i \in DOMAIN s |-> [s[i] EXCEPT !.age = IF @ > Cfg.negativeMaxAge THEN @ ELSE @ + 1]]
GrowOlder(n) == [committed |-> Aged(n.committed), pending |-> Aged(n.pending)]

DiscardPending(n) == [n EXCEPT !.pending = <<>>]

Retired(e) == Cfg.negativeMaxAge > 0 /\ e.age > Cfg.negativeMaxAge
ExpireCommitted(n) ==
  [n EXCEPT !.committed = Kept(@, {i \in DOMAIN @ : ~Retired(@[i])})]

\* What looks like the accepted target is no evidence against it.
Reconcile(n, look, id) ==
  IF look = None THEN n
  ELSE LET apart(s) == {i \in DOMAIN s : ~Alike(s[i], look)}
           own      == {i \in DOMAIN n.pending : id \in n.pending[i].selected}
       IN [committed |-> Kept(n.committed, apart(n.committed)),
           pending   |-> Kept(n.pending, own \cap apart(n.pending))]

Commit(st, entry) == [st EXCEPT !.committed = KeepNewest(Append(@, entry), Cfg.negativeMax)]

\* A coding mistake: one sight is enough.
CarelessStage(st, look, id) == Commit(st, NewEntry(look, id))

\* Seen before this update: committed once it was seen often enough.
Promote(st, i, id) ==
  LET entry == SeenAgain(st.before[i], id)
      seen  == [st EXCEPT !.touched = @ \cup {i}]
  IN IF entry.obs >= Cfg.negativeConfirm THEN Commit(seen, entry)
     ELSE [seen EXCEPT !.kept = @ \cup {i}, !.before[i] = entry]

\* Never seen before.
Stage(st, look, id) ==
  IF Cfg.negativeConfirm <= 1 THEN Commit(st, NewEntry(look, id))
  ELSE [st EXCEPT !.new = Append(@, NewEntry(look, id))]

\* One distractor: the first committed entry it resembles, else the first entry
\* staged before this update, else a new one.
LearnOne(st, look, id) ==
  LET known  == {i \in DOMAIN st.committed : Alike(st.committed[i], look)}
      staged == {i \in DOMAIN st.before \ st.touched :
                   id \in st.before[i].selected /\ Alike(st.before[i], look)}
  IN IF known # {} THEN [st EXCEPT !.committed[Min(known)] = SeenAgain(@, id)]
     ELSE IF staged # {} THEN Promote(st, Min(staged), id)
     ELSE Stage(st, look, id)

\* The distractors of an update, one after the other.
Learned(start, looks, id) ==
  LET upTo[n \in 0 .. Len(looks)] ==
        IF n = 0 THEN start ELSE LearnOne(upTo[n - 1], looks[n], id)
  IN  upTo[Len(looks)]

\* Staged evidence that was not seen again in this update is dropped.
LearnNegatives(n, looks, id) ==
  LET end    == Learned([committed |-> n.committed, before |-> n.pending, touched |-> {},
                         kept |-> {}, new |-> <<>>], looks, id)
      staged == Kept(end.before, end.kept) \o end.new
      fresh  == {i \in DOMAIN staged :
                   ~\E c \in Entries(end.committed) : Alike(c, staged[i].look)}
  IN [committed |-> end.committed, pending |-> KeepNewest(Kept(staged, fresh), Cfg.negativeMax)]
=============================================================================
