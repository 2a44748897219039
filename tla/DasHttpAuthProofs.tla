-------------------------- MODULE DasHttpAuthProofs --------------------------
(* Proofs about DasHttpAuth, for any servers, tokens, key files and bounds.  *)
EXTENDS DasHttpAuth, FiniteSetTheorems, LeastElement, TLAPS

-----------------------------------------------------------------------------
(* The manager's table.                                                      *)

Fits(c, k, validOnly) == Matches(c, k) /\ (validOnly => c.valid)

\* CredMngr_getCred returns the first entry that fits, and 0 only when none does.
LEMMA GetCredFacts ==
  ASSUME NEW cs \in Seq(Entries), NEW k, NEW validOnly, NEW g,
         g = GetCred(cs, k, validOnly)
  PROVE  /\ g \in {0} \cup DOMAIN cs
         /\ g # 0 => /\ Fits(cs[g], k, validOnly)
                     /\ \A j \in DOMAIN cs : Fits(cs[j], k, validOnly) => g <= j
         /\ g = 0 => \A j \in DOMAIN cs : ~Fits(cs[j], k, validOnly)
<1>1. PICK found : found = {i \in DOMAIN cs : Matches(cs[i], k) /\ (validOnly => cs[i].valid)}
  OBVIOUS
<1>2. g = IF found = {} THEN 0 ELSE Min(found)
  BY <1>1 DEF GetCred
<1>3. CASE found = {}
  BY <1>1, <1>2, <1>3 DEF Fits
<1>4. CASE found # {}
  <2>1. found \subseteq Nat /\ 0 \notin found
    BY <1>1
  <2>2. g = CHOOSE x \in found : \A y \in found : x <= y
    BY <1>2, <1>4, Zenon DEF Min
  <2>3. g \in found /\ \A y \in found : g <= y
    BY <2>1, <2>2, <1>4, LeastChosen
  <2> QED
    BY <2>1, <2>3, <1>1 DEF Fits
<1> QED
  BY <1>3, <1>4

\* An entry that fits, with none before it, is the one.
LEMMA GetCredIs ==
  ASSUME NEW cs \in Seq(Entries), NEW k, NEW validOnly, NEW i \in DOMAIN cs,
         Fits(cs[i], k, validOnly),
         \A j \in DOMAIN cs : Fits(cs[j], k, validOnly) => i <= j
  PROVE  GetCred(cs, k, validOnly) = i
<1>1. PICK g : g = GetCred(cs, k, validOnly)
  OBVIOUS
<1>2. g # 0 /\ g \in DOMAIN cs /\ g <= i /\ i <= g
  BY <1>1, GetCredFacts
<1>3. g = i
  BY <1>2
<1> QED
  BY <1>1, <1>3

\* Without one there is none.
LEMMA GetCredNone ==
  ASSUME NEW cs \in Seq(Entries), NEW k, NEW validOnly,
         \A j \in DOMAIN cs : ~Fits(cs[j], k, validOnly)
  PROVE  GetCred(cs, k, validOnly) = 0
<1>1. PICK found : found = {i \in DOMAIN cs : Matches(cs[i], k) /\ (validOnly => cs[i].valid)}
  OBVIOUS
<1>2. found = {}
  BY <1>1 DEF Fits
<1> QED
  BY <1>1, <1>2 DEF GetCred

\* Two tables that give the same keys the same places answer alike.
SameKeys(c, d) == c.srv = d.srv /\ c.cut = d.cut /\ c.ds = d.ds

\* A server has one entry for each of its keys.
LEMMA SameKeysSameCred ==
  ASSUME NEW cs \in Seq(Entries), NEW cs2 \in Seq(Entries), NEW k,
         Len(cs2) = Len(cs), \A i \in DOMAIN cs : SameKeys(cs[i], cs2[i])
  PROVE  GetCred(cs2, k, FALSE) = GetCred(cs, k, FALSE)
<1>1. PICK g : g = GetCred(cs, k, FALSE)
  OBVIOUS
<1>2. \A i \in DOMAIN cs : Fits(cs[i], k, FALSE) <=> Fits(cs2[i], k, FALSE)
  BY DEF SameKeys, Fits, Matches
<1>3. DOMAIN cs2 = DOMAIN cs
  OBVIOUS
<1>4. CASE g = 0
  BY <1>1, <1>2, <1>3, <1>4, GetCredFacts
<1>5. CASE g # 0
  <2>1. g \in DOMAIN cs /\ Fits(cs[g], k, FALSE)
        /\ \A j \in DOMAIN cs : Fits(cs[j], k, FALSE) => g <= j
    BY <1>1, <1>5, GetCredFacts
  <2>2. g \in DOMAIN cs2 /\ Fits(cs2[g], k, FALSE)
        /\ \A j \in DOMAIN cs2 : Fits(cs2[j], k, FALSE) => g <= j
    BY <2>1, <1>2, <1>3
  <2> QED
    BY <1>1, <2>2, GetCredIs
<1> QED
  BY <1>4, <1>5

Ordered(cs) ==
  \A i, j \in DOMAIN cs : i < j /\ ~cs[j].cut => ~Matches(cs[i], cs[j])

\* What the writers of the table do to one that they find a place in.
Retouched(cs, new) ==
  /\ new \in Seq(Entries) /\ Len(new) = Len(cs)
  /\ \A i \in DOMAIN cs : SameKeys(cs[i], new[i])

\* An entry with another secret is still where it was in the order.
LEMMA RetouchedOrdered ==
  ASSUME NEW cs \in Seq(Entries), NEW new, Retouched(cs, new), Ordered(cs)
  PROVE  Ordered(new)
<1>1. DOMAIN new = DOMAIN cs
  BY DEF Retouched
<1>2. \A i, j \in DOMAIN cs : (~new[j].cut <=> ~cs[j].cut)
                             /\ (Matches(new[i], new[j]) <=> Matches(cs[i], cs[j]))
  BY DEF Retouched, SameKeys, Matches
<1> QED
  BY <1>1, <1>2 DEF Ordered

\* ... and to one they find none in.
LEMMA AppendOrdered ==
  ASSUME NEW cs \in Seq(Entries), NEW c \in Entries, NEW k, Ordered(cs),
         GetCred(cs, k, FALSE) = 0,
         c.srv = k.srv, c.ds = k.ds, c.cut \/ k.cut = c.cut
  PROVE  Ordered(Append(cs, c))
<1>1. \A j \in DOMAIN cs : ~Matches(cs[j], k)
  BY GetCredFacts DEF Fits
<1>2. PICK new : new = Append(cs, c)
  OBVIOUS
<1>3. /\ new \in Seq(Entries) /\ Len(new) = Len(cs) + 1 /\ new[Len(cs) + 1] = c
      /\ \A i \in 1..Len(cs) : new[i] = cs[i]
  BY <1>2
<1>4. \A j \in DOMAIN cs : ~c.cut => ~Matches(cs[j], c)
  BY <1>1 DEF Matches
<1>5. Ordered(new)
  <2> SUFFICES ASSUME NEW i \in DOMAIN new, NEW j \in DOMAIN new, i < j, ~new[j].cut
               PROVE  ~Matches(new[i], new[j])
    BY DEF Ordered
  <2>1. i \in DOMAIN cs /\ new[i] = cs[i]
    BY <1>3
  <2>2. CASE j \in DOMAIN cs
    BY <1>3, <2>1, <2>2 DEF Ordered
  <2>3. CASE j = Len(cs) + 1
    BY <1>3, <1>4, <2>1, <2>3
  <2> QED
    BY <1>3, <2>2, <2>3
<1> QED
  BY <1>2, <1>5

\* The table has grown by n entries at most, at its end; nothing was withdrawn.
Grown(cs, new, n) ==
  /\ new \in Seq(Entries) /\ Len(cs) <= Len(new) /\ Len(new) <= Len(cs) + n
  /\ \A i \in DOMAIN cs : cs[i].valid => new[i].valid
  /\ Ordered(cs) => Ordered(new)

\* An entry is replaced by one for the same key.
LEMMA Retouch ==
  ASSUME NEW cs \in Seq(Entries), NEW i \in DOMAIN cs, NEW e \in Entries, SameKeys(cs[i], e),
         NEW new, new = [cs EXCEPT ![i] = e]
  PROVE  Retouched(cs, new)
<1>1. /\ new \in Seq(Entries) /\ Len(new) = Len(cs) /\ new[i] = e
      /\ \A j \in DOMAIN cs : j # i => new[j] = cs[j]
  OBVIOUS
<1> QED
  BY <1>1 DEF Retouched, SameKeys

\* CredMngr_addCred.
LEMMA AddCredGrows ==
  ASSUME NEW cs \in Seq(Entries), NEW c \in Entries
  PROVE  Grown(cs, AddCred(cs, c), 1)
<1>1. PICK i : i = GetCred(cs, c, FALSE)
  OBVIOUS
<1>2. PICK new : new = AddCred(cs, c)
  OBVIOUS
<1>3. CASE i = 0
  <2>1. new = Append(cs, c)
    BY <1>1, <1>2, <1>3 DEF AddCred
  <2>2. Ordered(cs) => Ordered(new)
    BY <2>1, <1>1, <1>3, AppendOrdered
  <2>3. /\ new \in Seq(Entries) /\ Len(cs) <= Len(new) /\ Len(new) <= Len(cs) + 1
        /\ \A j \in DOMAIN cs : cs[j].valid => new[j].valid
    BY <2>1
  <2> QED
    BY <1>2, <2>2, <2>3 DEF Grown
<1>4. CASE i # 0
  <2>1. i \in DOMAIN cs
    BY <1>1, <1>4, GetCredFacts
  <2>2. new = [cs EXCEPT ![i] = [cs[i] EXCEPT !.tok = c.tok]]
    BY <1>1, <1>2, <1>4 DEF AddCred
  <2> cs[i] \in Entries
    BY <2>1
  <2>3. PICK e : e = [cs[i] EXCEPT !.tok = c.tok]
    OBVIOUS
  <2>4. e \in Entries /\ SameKeys(cs[i], e) /\ e.valid = cs[i].valid
    BY <2>3 DEF Entries, SameKeys
  <2>5. new = [cs EXCEPT ![i] = e]
    BY <2>2, <2>3
  <2>6. Retouched(cs, new)
    BY <2>1, <2>4, <2>5, Retouch
  <2>7. new[i] = e /\ \A j \in DOMAIN cs : j # i => new[j] = cs[j]
    BY <2>1, <2>5
  <2>8. \A j \in DOMAIN cs : cs[j].valid => new[j].valid
    BY <2>1, <2>4, <2>7
  <2>9. Ordered(cs) => Ordered(new)
    BY <2>6, RetouchedOrdered
  <2> QED
    BY <1>2, <2>6, <2>8, <2>9 DEF Grown, Retouched
<1> QED
  BY <1>3, <1>4

\* Growing twice.
LEMMA GrownOn ==
  ASSUME NEW a \in Seq(Entries), NEW b, NEW c, NEW m \in Nat, NEW n \in Nat,
         Grown(a, b, m), Grown(b, c, n)
  PROVE  Grown(a, c, m + n)
<1>1. b \in Seq(Entries) /\ c \in Seq(Entries) /\ DOMAIN a \subseteq DOMAIN b
  BY DEF Grown
<1>2. Len(a) <= Len(c) /\ Len(c) <= Len(a) + (m + n)
  BY <1>1 DEF Grown
<1>3. \A i \in DOMAIN a : a[i].valid => c[i].valid
  BY <1>1 DEF Grown
<1> QED
  BY <1>1, <1>2, <1>3 DEF Grown

\* The tables CredMngr_load goes through, line by line: the recursion in Load has a value.
LoadLine(was, c) ==
  [creds |-> AddCred(was.creds, c),
   new   |-> IF GetCred(was.creds, c, FALSE) # 0
                /\ was.creds[GetCred(was.creds, c, FALSE)].tok = c.tok
             THEN was.new ELSE was.new + 1]

Loads(cs, lines, f) ==
  /\ f[0] = [creds |-> cs, new |-> 0]
  /\ \A i \in 1..Len(lines) : f[i] = LoadLine(f[i - 1], lines[i])

\* A line read keeps the table a table.
LEMMA LoadLineType ==
  ASSUME NEW was \in [creds : Seq(Entries), new : Nat], NEW c \in Entries
  PROVE  LoadLine(was, c) \in [creds : Seq(Entries), new : Nat]
<1>1. was.creds \in Seq(Entries) /\ was.new \in Nat
  OBVIOUS
<1>2. AddCred(was.creds, c) \in Seq(Entries)
  BY <1>1, AddCredGrows DEF Grown
<1> DEFINE Known == /\ GetCred(was.creds, c, FALSE) # 0
                    /\ was.creds[GetCred(was.creds, c, FALSE)].tok = c.tok
<1>3. PICK k \in Nat : k = IF Known THEN was.new ELSE was.new + 1
  <2> HIDE DEF Known
  <2> QED
    BY <1>1
<1>4. LoadLine(was, c) = [creds |-> AddCred(was.creds, c), new |-> k]
  BY <1>3, Zenon DEF LoadLine
<1> QED
  BY <1>2, <1>4

\* CredMngr_load goes through the lines in their order.
LEMMA LoadSteps ==
  ASSUME NEW cs \in Seq(Entries), NEW lines \in Seq(Entries)
  PROVE  \E f : Loads(cs, lines, f) /\ Load(cs, lines) = f[Len(lines)]
<1>1. PICK n \in Nat : n = Len(lines)
  OBVIOUS
<1>2. PICK S : S = [creds : Seq(Entries), new : Nat]
  OBVIOUS
<1>3. PICK start \in S : start = [creds |-> cs, new |-> 0]
  BY <1>2
<1>4. PICK step : step = [i \in 1..n |-> [was \in S |-> LoadLine(was, lines[i])]]
  OBVIOUS
<1>5. ASSUME NEW i \in 1..n, NEW was \in S
      PROVE  step[i][was] = LoadLine(was, lines[i]) /\ step[i][was] \in S
  <2>1. lines[i] \in Entries
    BY <1>1
  <2>2. LoadLine(was, lines[i]) \in S
    BY <1>2, <2>1, LoadLineType
  <2> QED
    BY <1>4, <2>2
<1>6. StaysIn(step, n, S)
  BY <1>5 DEF StaysIn
<1>7. PICK f \in [0..n -> S] : Recursion(f, n, start, step)
  BY <1>6, RecursionExists
<1>8. ASSUME NEW i \in 0..n
      PROVE  f[i] = IF i = 0 THEN start ELSE LoadLine(f[i - 1], lines[i])
  <2>1. CASE i = 0
    BY <1>7, <2>1 DEF Recursion
  <2>2. CASE i # 0
    <3>1. i \in 1..n /\ i - 1 \in 0..n
      BY <2>2
    <3>2. f[i - 1] \in S
      BY <1>7, <3>1
    <3>3. f[i] = step[i][f[i - 1]]
      BY <1>7, <3>1 DEF Recursion
    <3>4. step[i][f[i - 1]] = LoadLine(f[i - 1], lines[i])
      BY <1>5, <3>1, <3>2
    <3> QED
      BY <2>2, <3>3, <3>4
  <2> QED
    BY <2>1, <2>2
<1>9. f = [i \in 0..n |-> IF i = 0 THEN start ELSE LoadLine(f[i - 1], lines[i])]
  BY <1>7, <1>8
<1>10. PICK after : after = CHOOSE g : g = [i \in 0..n |-> IF i = 0 THEN start
                                                   ELSE LoadLine(g[i - 1], lines[i])]
  OBVIOUS
<1>11. after = [i \in 0..n |-> IF i = 0 THEN start ELSE LoadLine(after[i - 1], lines[i])]
  BY <1>9, <1>10, Zenon
<1>12. Load(cs, lines) = after[n]
  BY <1>1, <1>3, <1>10 DEF Load, LoadLine
<1>13. Loads(cs, lines, after)
  <2>1. \A i \in 0..n : after[i] = IF i = 0 THEN start ELSE LoadLine(after[i - 1], lines[i])
    BY <1>11, Zenon
  <2>2. after[0] = start
    BY <2>1
  <2>3. ASSUME NEW i \in 1..n
        PROVE  after[i] = LoadLine(after[i - 1], lines[i])
    <3>1. i \in 0..n /\ i # 0
      OBVIOUS
    <3> QED
      BY <2>1, <3>1, Zenon
  <2> QED
    BY <1>1, <1>3, <2>2, <2>3 DEF Loads
<1> QED
  BY <1>1, <1>12, <1>13

\* CredMngr_load adds at most an entry for each line, and keeps the order of the table.
LEMMA LoadGrows ==
  ASSUME NEW cs \in Seq(Entries), NEW lines \in Seq(Entries)
  PROVE  Grown(cs, Load(cs, lines).creds, Len(lines))
<1>1. PICK f : Loads(cs, lines, f) /\ Load(cs, lines) = f[Len(lines)]
  BY LoadSteps
<1>2. PICK n \in Nat : n = Len(lines)
  OBVIOUS
<1>3. PICK Good : Good = {i \in 0..n : Grown(cs, f[i].creds, i)}
  OBVIOUS
<1>4. 0 \in Good
  <2>1. f[0].creds = cs
    BY <1>1 DEF Loads
  <2>2. Grown(cs, cs, 0)
    BY DEF Grown
  <2> QED
    BY <1>3, <2>1, <2>2
<1>5. ASSUME NEW i \in 1..n, i - 1 \in Good
      PROVE  i \in Good
  <2>1. PICK was, c, j : was = f[i - 1].creds /\ c = lines[i] /\ j = i - 1
    OBVIOUS
  <2>2. Grown(cs, was, j)
    BY <1>3, <1>5, <2>1
  <2>3. was \in Seq(Entries) /\ c \in Entries /\ j \in Nat
    BY <1>2, <2>1, <2>2 DEF Grown
  <2>4. f[i].creds = AddCred(was, c)
    <3>1. f[i] = LoadLine(f[i - 1], c)
      BY <1>1, <1>2, <2>1 DEF Loads
    <3> QED
      BY <2>1, <3>1 DEF LoadLine
  <2>5. Grown(was, f[i].creds, 1)
    BY <2>3, <2>4, AddCredGrows
  <2>6. Grown(cs, f[i].creds, j + 1)
    BY <2>2, <2>3, <2>5, GrownOn
  <2>7. j + 1 = i
    BY <2>1
  <2> QED
    BY <1>3, <2>6, <2>7
<1>6. 0..n \subseteq Good
  BY <1>4, <1>5, IntervalInduction
<1> QED
  BY <1>1, <1>2, <1>3, <1>6

\* CredMngr_authFailed withdraws the first entry, and changes nothing else.
FirstWithdrawn(cs, new, f) ==
  \A i \in DOMAIN cs :
    /\ i = f => ~new[i].valid
    /\ i # f => new[i] = cs[i]

\* What CredMngr_authFailed changes.
LEMMA AuthFailedFacts ==
  ASSUME NEW cs \in Seq(Entries), NEW k, NEW new, new = AuthFailed(cs, k)
  PROVE  Retouched(cs, new) /\ FirstWithdrawn(cs, new, GetCred(cs, k, FALSE))
<1>1. PICK i : i = GetCred(cs, k, FALSE)
  OBVIOUS
<1>2. CASE i = 0
  <2>1. new = cs
    BY <1>1, <1>2 DEF AuthFailed
  <2>2. Retouched(cs, new)
    BY <2>1 DEF Retouched, SameKeys
  <2>3. \A j \in DOMAIN cs : j # i /\ new[j] = cs[j]
    BY <1>2, <2>1
  <2> QED
    BY <1>1, <2>2, <2>3 DEF FirstWithdrawn
<1>3. CASE i # 0
  <2>1. i \in DOMAIN cs
    BY <1>1, <1>3, GetCredFacts
  <2> cs[i] \in Entries
    BY <2>1
  <2>2. new = [cs EXCEPT ![i] = [cs[i] EXCEPT !.valid = FALSE]]
    BY <1>1, <1>3 DEF AuthFailed
  <2>3. PICK e : e = [cs[i] EXCEPT !.valid = FALSE]
    OBVIOUS
  <2>4. e \in Entries /\ SameKeys(cs[i], e) /\ e.tok = cs[i].tok /\ ~e.valid
    BY <2>1, <2>3 DEF Entries, SameKeys
  <2>5. new = [cs EXCEPT ![i] = e]
    BY <2>2, <2>3
  <2>6. Retouched(cs, new)
    BY <2>1, <2>4, <2>5, Retouch
  <2>7. new[i] = e /\ \A j \in DOMAIN cs : j # i => new[j] = cs[j]
    BY <2>1, <2>5
  <2> QED
    BY <1>1, <2>1, <2>4, <2>6, <2>7 DEF FirstWithdrawn
<1> QED
  BY <1>2, <1>3

\* The user's answer: the table stays in order, and the first entry for the key, if
\* the key can be found at all, holds the answer.
Holds(new, k, t) ==
  LET g == GetCred(new, k, FALSE) IN g # 0 => new[g].tok = t

\* A new last entry answers only when no other did.
LEMMA AnswerAppended ==
  ASSUME NEW cs \in Seq(Entries), NEW k, NEW c \in Entries, NEW new, new = Append(cs, c),
         GetCred(cs, k, FALSE) = 0,
         c.srv = k.srv, c.ds = k.ds, c.cut \/ k.cut = c.cut
  PROVE  Grown(cs, new, 1) /\ Holds(new, k, c.tok)
<1>1. Ordered(cs) => Ordered(new)
  BY AppendOrdered
<1>2. /\ new \in Seq(Entries) /\ Len(new) = Len(cs) + 1 /\ new[Len(cs) + 1] = c
      /\ \A j \in DOMAIN cs : new[j] = cs[j]
  OBVIOUS
<1>3. Grown(cs, new, 1)
  <2>1. \A j \in DOMAIN cs : cs[j].valid => new[j].valid
    BY <1>2
  <2> QED
    BY <1>1, <1>2, <2>1 DEF Grown
<1>4. \A j \in DOMAIN cs : ~Fits(cs[j], k, FALSE)
  BY GetCredFacts
<1>5. PICK g : g = GetCred(new, k, FALSE)
  OBVIOUS
<1>6. ASSUME g # 0 PROVE new[g].tok = c.tok
  <2>1. g \in DOMAIN new
    BY <1>2, <1>5, <1>6, GetCredFacts
  <2>2. Fits(new[g], k, FALSE)
    BY <1>2, <1>5, <1>6, GetCredFacts
  <2>3. g \notin DOMAIN cs
    BY <1>2, <1>4, <2>2
  <2>4. g = Len(cs) + 1
    BY <1>2, <2>1, <2>3
  <2> QED
    BY <1>2, <2>4
<1> QED
  BY <1>3, <1>5, <1>6 DEF Holds

\* The entry of CredMngr_addUserPass for a new server.
LEMMA NewEntry ==
  ASSUME NEW s \in Servers, NEW d \in Datasets, NEW t \in Tokens, NEW c,
         c = [srv |-> s, cut |-> s \in Long, ds |-> d, tok |-> t, valid |-> TRUE]
  PROVE  c \in Entries /\ c.srv = s /\ c.ds = d /\ c.tok = t
  BY DEF Entries

\* What is known of the entry that answers.
LEMMA AnsweredFacts ==
  ASSUME NEW cs \in Seq(Entries), NEW t \in Tokens, NEW k,
         k.srv \in Servers, k.ds \in Datasets, k.cut = FALSE
  PROVE  /\ Grown(cs, Answered(cs, k, t), 1)
         /\ GetCred(cs, k, FALSE) # 0 => Len(Answered(cs, k, t)) = Len(cs)
         /\ Holds(Answered(cs, k, t), k, t)
<1>1. PICK i : i = GetCred(cs, k, FALSE)
  OBVIOUS
<1>2. PICK new : new = Answered(cs, k, t)
  OBVIOUS
<1>3. CASE i = 0
  <2>1. PICK c : c = [srv |-> k.srv, cut |-> k.srv \in Long, ds |-> k.ds,
                      tok |-> t, valid |-> TRUE]
    OBVIOUS
  <2>2. PICK s \in Servers : s = k.srv
    OBVIOUS
  <2>3. c \in Entries /\ c.srv = k.srv /\ c.ds = k.ds /\ (c.cut \/ k.cut = c.cut) /\ c.tok = t
    <3>1. PICK d \in Datasets : d = k.ds
      OBVIOUS
    <3>2. c = [srv |-> s, cut |-> s \in Long, ds |-> d, tok |-> t, valid |-> TRUE]
      BY <2>1, <2>2, <3>1
    <3>3. c \in Entries /\ c.srv = s /\ c.ds = d /\ c.tok = t
      BY <3>2, NewEntry
    <3> QED
      BY <2>2, <3>1, <3>3 DEF Entries
  <2>4. new = Append(cs, c)
    BY <1>1, <1>2, <1>3, <2>1 DEF Answered
  <2>5. Grown(cs, new, 1) /\ Holds(new, k, c.tok)
    BY <1>1, <1>3, <2>3, <2>4, AnswerAppended
  <2> QED
    BY <1>1, <1>2, <1>3, <2>3, <2>5
<1>4. CASE i # 0
  <2>1. i \in DOMAIN cs
    BY <1>1, <1>4, GetCredFacts
  <2> cs[i] \in Entries
    BY <2>1
  <2>2. new = [cs EXCEPT ![i] = [cs[i] EXCEPT !.tok = t, !.valid = TRUE]]
    BY <1>1, <1>2, <1>4 DEF Answered
  <2>3. PICK e : e = [cs[i] EXCEPT !.tok = t, !.valid = TRUE]
    OBVIOUS
  <2>4. e \in Entries /\ SameKeys(cs[i], e) /\ e.tok = t /\ e.valid
    BY <2>1, <2>3 DEF Entries, SameKeys
  <2>5. new = [cs EXCEPT ![i] = e]
    BY <2>2, <2>3
  <2>6. Retouched(cs, new)
    BY <2>1, <2>4, <2>5, Retouch
  <2>7. new[i] = e /\ \A j \in DOMAIN cs : j # i => new[j] = cs[j]
    BY <2>1, <2>5
  <2>8. GetCred(new, k, FALSE) = i
    BY <1>1, <2>6, SameKeysSameCred DEF Retouched
  <2>9. Ordered(cs) => Ordered(new)
    BY <2>6, RetouchedOrdered
  <2>10. \A j \in DOMAIN cs : cs[j].valid => new[j].valid
    BY <2>1, <2>4, <2>7
  <2>11. new \in Seq(Entries) /\ Len(new) = Len(cs)
    BY <2>6 DEF Retouched
  <2>12. Grown(cs, new, 1)
    BY <2>9, <2>10, <2>11 DEF Grown
  <2>13. Holds(new, k, t)
    BY <2>4, <2>7, <2>8 DEF Holds
  <2> QED
    BY <1>2, <2>11, <2>12, <2>13
<1> QED
  BY <1>3, <1>4

-----------------------------------------------------------------------------
(* Saving the table and loading it again.                                    *)

\* The lines CredMngr_save has written after each entry.
SaveLine(was, c) == IF c.valid THEN Append(was, c) ELSE was

Saves(cs, f) ==
  /\ f[0] = <<>>
  /\ \A i \in 1..Len(cs) : f[i] = SaveLine(f[i - 1], cs[i])

\* CredMngr_save goes through the table in its order.
LEMMA SaveSteps ==
  ASSUME NEW cs \in Seq(Entries)
  PROVE  \E f : Saves(cs, f) /\ Saved(cs) = f[Len(cs)]
<1>1. PICK n \in Nat : n = Len(cs)
  OBVIOUS
<1>2. PICK S : S = Seq(Entries)
  OBVIOUS
<1>3. PICK start : start = <<>>
  OBVIOUS
<1>4. start \in S
  BY <1>2, <1>3
<1>5. PICK step : step = [i \in 1..n |-> [was \in S |-> SaveLine(was, cs[i])]]
  OBVIOUS
<1>6. ASSUME NEW i \in 1..n, NEW was \in S
      PROVE  step[i][was] = SaveLine(was, cs[i]) /\ step[i][was] \in S
  <2>1. PICK c \in Entries : c = cs[i]
    BY <1>1
  <2>2. SaveLine(was, c) \in S
    BY <1>2 DEF SaveLine
  <2> QED
    BY <1>5, <2>1, <2>2
<1>7. StaysIn(step, n, S)
  BY <1>6 DEF StaysIn
<1>8. PICK f \in [0..n -> S] : Recursion(f, n, start, step)
  BY <1>4, <1>7, RecursionExists
<1>9. ASSUME NEW i \in 0..n
      PROVE  f[i] = IF i = 0 THEN start ELSE SaveLine(f[i - 1], cs[i])
  <2>1. CASE i = 0
    BY <1>8, <2>1 DEF Recursion
  <2>2. CASE i # 0
    <3>1. i \in 1..n /\ i - 1 \in 0..n
      BY <2>2
    <3>2. f[i - 1] \in S
      BY <1>8, <3>1
    <3>3. f[i] = step[i][f[i - 1]]
      BY <1>8, <3>1 DEF Recursion
    <3>4. step[i][f[i - 1]] = SaveLine(f[i - 1], cs[i])
      BY <1>6, <3>1, <3>2
    <3> QED
      BY <2>2, <3>3, <3>4
  <2> QED
    BY <2>1, <2>2
<1>10. f = [i \in 0..n |-> IF i = 0 THEN start ELSE SaveLine(f[i - 1], cs[i])]
  BY <1>8, <1>9
<1>11. PICK saved : saved = CHOOSE g : g = [i \in 0..n |-> IF i = 0 THEN start
                                                   ELSE SaveLine(g[i - 1], cs[i])]
  OBVIOUS
<1>12. saved = [i \in 0..n |-> IF i = 0 THEN start ELSE SaveLine(saved[i - 1], cs[i])]
  BY <1>10, <1>11, Zenon
<1>13. Saved(cs) = saved[n]
  BY <1>1, <1>3, <1>11 DEF Saved, SaveLine
<1>14. Saves(cs, saved)
  BY <1>1, <1>3, <1>12 DEF Saves
<1> QED
  BY <1>1, <1>13, <1>14

\* No entry is found in the place of a later one, whatever the length of its name.
Distinct(cs) == \A i, j \in DOMAIN cs : i < j => ~Matches(cs[i], cs[j])

\* The lines are valid entries of the table, in its order.
FromTable(cs, lines, i) ==
  /\ lines \in Seq(Entries) /\ Distinct(lines)
  /\ \A a \in DOMAIN lines : \E j \in 1..i : lines[a] = cs[j]

\* Each line saved is of an entry of the table.
LEMMA SavedFromTable ==
  ASSUME NEW cs \in Seq(Entries), Distinct(cs)
  PROVE  FromTable(cs, Saved(cs), Len(cs))
<1>1. PICK f : Saves(cs, f) /\ Saved(cs) = f[Len(cs)]
  BY SaveSteps
<1>2. PICK n \in Nat : n = Len(cs)
  OBVIOUS
<1>3. PICK Good : Good = {i \in 0..n : FromTable(cs, f[i], i)}
  OBVIOUS
<1>4. 0 \in Good
  <2>1. f[0] = <<>>
    BY <1>1 DEF Saves
  <2>2. FromTable(cs, f[0], 0)
    BY <2>1 DEF FromTable, Distinct
  <2> QED
    BY <1>3, <2>2
<1>5. ASSUME NEW i \in 1..n, i - 1 \in Good
      PROVE  i \in Good
  <2>1. PICK was, h, c : was = f[i - 1] /\ h = i - 1 /\ c = cs[i]
    OBVIOUS
  <2>2. h \in Nat /\ c \in Entries /\ FromTable(cs, was, h)
    BY <1>2, <1>3, <1>5, <2>1
  <2>3. f[i] = IF c.valid THEN Append(was, c) ELSE was
    BY <1>1, <1>2, <2>1 DEF Saves, SaveLine
  <2>4. \A a \in DOMAIN was : ~Matches(was[a], c)
    <3> SUFFICES ASSUME NEW a \in DOMAIN was PROVE ~Matches(was[a], c)
      OBVIOUS
    <3>1. PICK j \in 1..h : was[a] = cs[j]
      BY <2>2 DEF FromTable
    <3>2. j \in DOMAIN cs /\ i \in DOMAIN cs /\ j < i
      BY <1>2, <2>1, <2>2
    <3> QED
      BY <2>1, <3>1, <3>2 DEF Distinct
  <2>5. PICK new : new = Append(was, c)
    OBVIOUS
  <2>6. was \in Seq(Entries) /\ Distinct(was)
    BY <2>2 DEF FromTable
  <2>7. /\ new \in Seq(Entries) /\ Len(new) = Len(was) + 1 /\ new[Len(was) + 1] = c
        /\ \A a \in DOMAIN was : new[a] = was[a]
    BY <2>2, <2>5, <2>6
  <2>8. Distinct(new)
    <3> SUFFICES ASSUME NEW a \in DOMAIN new, NEW b \in DOMAIN new, a < b
                 PROVE  ~Matches(new[a], new[b])
      BY DEF Distinct
    <3>1. a \in DOMAIN was /\ new[a] = was[a]
      BY <2>6, <2>7
    <3>2. CASE b \in DOMAIN was
      BY <2>6, <2>7, <3>1, <3>2 DEF Distinct
    <3>3. CASE b = Len(was) + 1
      BY <2>4, <2>7, <3>1, <3>3
    <3> QED
      BY <2>6, <2>7, <3>2, <3>3
  <2>9. \A a \in DOMAIN new : \E j \in 1..i : new[a] = cs[j]
    <3> SUFFICES ASSUME NEW a \in DOMAIN new PROVE \E j \in 1..i : new[a] = cs[j]
      OBVIOUS
    <3>1. CASE a \in DOMAIN was
      <4>1. PICK j \in 1..h : was[a] = cs[j]
        BY <2>2, <3>1 DEF FromTable
      <4>2. j \in 1..i
        BY <2>1, <2>2
      <4> QED
        BY <2>7, <3>1, <4>1, <4>2
    <3>2. CASE a = Len(was) + 1
      BY <2>1, <2>7, <3>2
    <3> QED
      BY <2>6, <2>7, <3>1, <3>2
  <2>10. FromTable(cs, new, i)
    BY <2>7, <2>8, <2>9 DEF FromTable
  <2>11. FromTable(cs, was, i)
    <3>1. 1..h \subseteq 1..i
      BY <2>1, <2>2
    <3> QED
      BY <2>2, <3>1 DEF FromTable
  <2> QED
    BY <1>3, <2>3, <2>5, <2>10, <2>11
<1>6. 0..n \subseteq Good
  BY <1>4, <1>5, IntervalInduction
<1> QED
  BY <1>1, <1>2, <1>3, <1>6

\* Loading them into the table they come from changes nothing.
LEMMA LoadOfSaved ==
  ASSUME NEW cs \in Seq(Entries), Distinct(cs)
  PROVE  Load(cs, Saved(cs)) = [creds |-> cs, new |-> 0]
<1>1. PICK lines \in Seq(Entries) : lines = Saved(cs) /\ FromTable(cs, lines, Len(cs))
  BY SavedFromTable DEF FromTable
<1>2. PICK f : Loads(cs, lines, f) /\ Load(cs, lines) = f[Len(lines)]
  BY LoadSteps
<1>3. PICK same : same = [creds |-> cs, new |-> 0]
  OBVIOUS
<1>4. PICK n \in Nat : n = Len(lines)
  OBVIOUS
<1>5. PICK Good : Good = {i \in 0..n : f[i] = same}
  OBVIOUS
<1>6. 0 \in Good
  BY <1>2, <1>3, <1>5 DEF Loads
<1>7. ASSUME NEW c, NEW j \in DOMAIN cs, c = cs[j] PROVE LoadLine(same, c) = same
  <2>1. Fits(c, c, FALSE)
    BY DEF Fits, Matches
  <2>2. \A h \in DOMAIN cs : Fits(cs[h], c, FALSE) => j <= h
    BY <1>7 DEF Distinct, Fits
  <2>3. GetCred(cs, c, FALSE) = j
    BY <1>7, <2>1, <2>2, GetCredIs
  <2>4. j # 0 /\ cs[j] \in Entries
    OBVIOUS
  <2>5. [cs[j] EXCEPT !.tok = c.tok] = cs[j]
    BY <1>7, <2>4 DEF Entries
  <2>6. AddCred(cs, c) = [cs EXCEPT ![j] = cs[j]]
    BY <2>3, <2>4, <2>5 DEF AddCred
  <2>7. AddCred(cs, c) = cs
    BY <2>6
  <2> QED
    BY <1>3, <1>7, <2>3, <2>4, <2>7 DEF LoadLine
<1>8. ASSUME NEW i \in 1..n, i - 1 \in Good
      PROVE  i \in Good
  <2>1. PICK c : c = lines[i]
    OBVIOUS
  <2>2. f[i] = LoadLine(same, c)
    BY <1>2, <1>4, <1>5, <1>8, <2>1 DEF Loads
  <2>3. \E j \in DOMAIN cs : c = cs[j]
    BY <1>1, <1>4, <2>1 DEF FromTable
  <2> QED
    BY <1>5, <1>7, <2>2, <2>3
<1>9. 0..n \subseteq Good
  BY <1>6, <1>8, IntervalInduction
<1> QED
  BY <1>1, <1>2, <1>3, <1>4, <1>5, <1>9

\* A program that is started again has what was saved.
LEMMA LoadOfNothing ==
  ASSUME NEW lines \in Seq(Entries), Distinct(lines)
  PROVE  Load(<<>>, lines).creds = lines
<1>1. PICK none \in Seq(Entries) : none = <<>>
  <2>1. <<>> \in Seq(Entries)
    OBVIOUS
  <2> QED
    BY <2>1
<1>2. PICK f : Loads(none, lines, f) /\ Load(none, lines) = f[Len(lines)]
  BY LoadSteps
<1>3. PICK n \in Nat : n = Len(lines)
  OBVIOUS
<1> DEFINE Copied(cs, i) == cs \in Seq(Entries) /\ Len(cs) = i /\ \A j \in 1..i : cs[j] = lines[j]
<1>4. PICK Good : Good = {i \in 0..n : Copied(f[i].creds, i)}
  OBVIOUS
<1>5. 0 \in Good
  <2>1. f[0].creds = <<>>
    BY <1>2, <1>1 DEF Loads
  <2>2. Copied(<<>>, 0)
    OBVIOUS
  <2> HIDE DEF Copied
  <2> QED
    BY <1>4, <2>1, <2>2
<1>6. ASSUME NEW i \in 1..n, i - 1 \in Good
      PROVE  i \in Good
  <2>1. PICK was, h, c : was = f[i - 1].creds /\ h = i - 1 /\ c = lines[i]
    OBVIOUS
  <2>2. h \in Nat /\ c \in Entries /\ Copied(was, h)
    BY <1>3, <1>4, <1>6, <2>1
  <2>3. f[i].creds = AddCred(was, c)
    <3>1. f[i] = LoadLine(f[i - 1], c)
      BY <1>2, <1>3, <2>1 DEF Loads
    <3> QED
      BY <2>1, <3>1 DEF LoadLine
  <2>4. \A j \in DOMAIN was : ~Fits(was[j], c, FALSE)
    <3> SUFFICES ASSUME NEW j \in DOMAIN was PROVE ~Fits(was[j], c, FALSE)
      OBVIOUS
    <3>1. j \in DOMAIN lines /\ i \in DOMAIN lines /\ j < i /\ was[j] = lines[j]
      BY <1>3, <2>1, <2>2
    <3> QED
      BY <2>1, <3>1 DEF Distinct, Fits
  <2>5. GetCred(was, c, FALSE) = 0
    <3>1. was \in Seq(Entries)
      BY <2>2
    <3> QED
      BY <2>4, <3>1, GetCredNone
  <2>6. f[i].creds = Append(was, c)
    BY <2>3, <2>5 DEF AddCred
  <2>7. Copied(Append(was, c), i)
    BY <2>1, <2>2
  <2>8. Copied(f[i].creds, i) /\ i \in 0..n
    <3> HIDE DEF Copied
    <3> QED
      BY <2>6, <2>7
  <2> HIDE DEF Copied
  <2> QED
    BY <1>4, <2>8
<1>7. 0..n \subseteq Good
  <2> HIDE DEF Copied
  <2> QED
    BY <1>5, <1>6, IntervalInduction
<1>8. PICK cs : cs = f[n].creds
  OBVIOUS
<1>9. Copied(cs, n)
  BY <1>4, <1>7, <1>8
<1>10. cs = lines
  BY <1>3, <1>9
<1> QED
  BY <1>2, <1>3, <1>8, <1>10, <1>1

\* The first valid entry for a key is the first line for it.
SameFirst(cs, lines, i, k) ==
  \/ /\ \A j \in 1..i : ~Fits(cs[j], k, TRUE)
     /\ \A a \in DOMAIN lines : ~Fits(lines[a], k, TRUE)
  \/ \E j \in 1..i, a \in DOMAIN lines :
       /\ lines[a] = cs[j] /\ Fits(cs[j], k, TRUE)
       /\ \A h \in 1..i : Fits(cs[h], k, TRUE) => j <= h
       /\ \A b \in DOMAIN lines : Fits(lines[b], k, TRUE) => a <= b

\* An entry that keeps its server and its state stays the first to answer.
LEMMA SameFirstKept ==
  ASSUME NEW cs \in Seq(Entries), NEW was \in Seq(Entries), NEW i \in 1..Len(cs), NEW h \in Nat,
         h = i - 1, NEW k, SameFirst(cs, was, h, k)
  PROVE  SameFirst(cs, SaveLine(was, cs[i]), i, k)
<1>1. PICK c \in Entries : c = cs[i]
  OBVIOUS
<1>2. 1..i = (1..h) \cup {i} /\ i <= i
  OBVIOUS
<1>3. CASE ~c.valid
  <2>1. ~Fits(cs[i], k, TRUE) /\ SaveLine(was, cs[i]) = was
    BY <1>1, <1>3 DEF Fits, SaveLine
  <2> QED
    BY <1>2, <2>1 DEF SameFirst
<1>4. CASE c.valid
  <2>1. PICK new : new = SaveLine(was, cs[i])
    OBVIOUS
  <2>2. new = Append(was, c)
    BY <1>1, <1>4, <2>1 DEF SaveLine
  <2>3. PICK e \in Nat : e = Len(was) + 1
    OBVIOUS
  <2>4. /\ DOMAIN new = DOMAIN was \cup {e} /\ new[e] = cs[i]
        /\ \A a \in DOMAIN was : new[a] = was[a] /\ a < e
    BY <1>1, <2>2, <2>3
  <2>5. CASE \E j \in 1..h : Fits(cs[j], k, TRUE)
    <3>1. PICK j \in 1..h, a \in DOMAIN was :
            /\ was[a] = cs[j] /\ Fits(cs[j], k, TRUE)
            /\ \A g \in 1..h : Fits(cs[g], k, TRUE) => j <= g
            /\ \A b \in DOMAIN was : Fits(was[b], k, TRUE) => a <= b
      BY <2>5 DEF SameFirst
    <3>2. j \in 1..i /\ j <= i /\ a \in DOMAIN new /\ new[a] = cs[j] /\ a <= e
      BY <1>2, <2>4, <3>1
    <3>3. \A g \in 1..i : Fits(cs[g], k, TRUE) => j <= g
      BY <1>2, <3>1, <3>2
    <3>4. \A b \in DOMAIN new : Fits(new[b], k, TRUE) => a <= b
      BY <2>4, <3>1, <3>2
    <3> QED
      BY <2>1, <3>1, <3>2, <3>3, <3>4 DEF SameFirst
  <2>6. CASE ~ \E j \in 1..h : Fits(cs[j], k, TRUE)
    <3>1. \A a \in DOMAIN was : ~Fits(was[a], k, TRUE)
      BY <2>6 DEF SameFirst
    <3>2. CASE Fits(cs[i], k, TRUE)
      <4>1. \A g \in 1..i : Fits(cs[g], k, TRUE) => i <= g
        <5> SUFFICES ASSUME NEW g \in 1..i, Fits(cs[g], k, TRUE) PROVE i <= g
          OBVIOUS
        <5>1. g \notin 1..h
          BY <2>6
        <5> QED
          BY <1>2, <5>1
      <4>2. \A b \in DOMAIN new : Fits(new[b], k, TRUE) => e <= b
        <5> SUFFICES ASSUME NEW b \in DOMAIN new, Fits(new[b], k, TRUE) PROVE e <= b
          OBVIOUS
        <5>1. b \notin DOMAIN was
          BY <2>4, <3>1
        <5> QED
          BY <2>3, <2>4, <5>1
      <4> QED
        BY <1>2, <2>1, <2>4, <3>2, <4>1, <4>2 DEF SameFirst
    <3>3. CASE ~Fits(cs[i], k, TRUE)
      <4>1. \A j \in 1..i : ~Fits(cs[j], k, TRUE)
        BY <1>2, <2>6, <3>3
      <4>2. \A a \in DOMAIN new : ~Fits(new[a], k, TRUE)
        BY <2>4, <3>1, <3>3
      <4> QED
        BY <2>1, <4>1, <4>2 DEF SameFirst
    <3> QED
      BY <3>2, <3>3
  <2> QED
    BY <2>5, <2>6
<1> QED
  BY <1>3, <1>4

\* A table loaded from what was saved answers as the saved one.
LEMMA SavedAnswersAlike ==
  ASSUME NEW cs \in Seq(Entries), NEW u, Distinct(cs)
  PROVE  Answer(Saved(cs), u) = Answer(cs, u)
<1>1. PICK f : Saves(cs, f) /\ Saved(cs) = f[Len(cs)]
  BY SaveSteps
<1>2. PICK n \in Nat : n = Len(cs)
  OBVIOUS
<1>3. PICK k : k = [srv |-> u.srv, cut |-> FALSE, ds |-> u.ds]
  OBVIOUS
<1>4. PICK Good : Good = {i \in 0..n : f[i] \in Seq(Entries) /\ SameFirst(cs, f[i], i, k)}
  OBVIOUS
<1>5. 0 \in Good
  <2>1. f[0] = <<>>
    BY <1>1 DEF Saves
  <2>2. PICK none : none = <<>>
    OBVIOUS
  <2>3. none \in Seq(Entries) /\ DOMAIN none = {} /\ 1..0 = {}
    BY <2>2
  <2>4. SameFirst(cs, none, 0, k)
    BY <2>3 DEF SameFirst
  <2>5. f[0] \in Seq(Entries) /\ SameFirst(cs, f[0], 0, k) /\ 0 \in 0..n
    BY <2>1, <2>2, <2>3, <2>4
  <2> QED
    BY <1>4, <2>5
<1>6. ASSUME NEW i \in 1..n, i - 1 \in Good
      PROVE  i \in Good
  <2>1. PICK was, h : was = f[i - 1] /\ h = i - 1
    OBVIOUS
  <2>2. h \in Nat /\ was \in Seq(Entries) /\ SameFirst(cs, was, h, k)
    BY <1>4, <1>6, <2>1
  <2>3. f[i] = SaveLine(was, cs[i])
    BY <1>1, <1>2, <2>1 DEF Saves
  <2>4. cs[i] \in Entries
    BY <1>2
  <2>5. f[i] \in Seq(Entries)
    BY <2>2, <2>3, <2>4 DEF SaveLine
  <2>6. SameFirst(cs, f[i], i, k)
    BY <1>2, <2>1, <2>2, <2>3, SameFirstKept
  <2> QED
    BY <1>4, <2>5, <2>6
<1>7. 0..n \subseteq Good
  BY <1>5, <1>6, IntervalInduction
<1>8. PICK lines \in Seq(Entries) : lines = Saved(cs) /\ SameFirst(cs, lines, n, k)
  BY <1>1, <1>2, <1>4, <1>7
<1>9. DOMAIN cs = 1..n
  BY <1>2
<1>10. CASE \E j \in 1..n : Fits(cs[j], k, TRUE)
  <2>1. PICK j \in 1..n, a \in DOMAIN lines :
          /\ lines[a] = cs[j] /\ Fits(cs[j], k, TRUE)
          /\ \A h \in 1..n : Fits(cs[h], k, TRUE) => j <= h
          /\ \A b \in DOMAIN lines : Fits(lines[b], k, TRUE) => a <= b
    BY <1>8, <1>10 DEF SameFirst
  <2>2. j \in DOMAIN cs /\ Fits(lines[a], k, TRUE)
    BY <1>9, <2>1
  <2>3. \A h \in DOMAIN cs : Fits(cs[h], k, TRUE) => j <= h
    BY <1>9, <2>1
  <2>4. GetCred(cs, k, TRUE) = j
    BY <2>1, <2>2, <2>3, GetCredIs
  <2>5. GetCred(lines, k, TRUE) = a
    BY <2>1, <2>2, GetCredIs
  <2>6. j # 0 /\ a # 0
    BY <2>2
  <2> QED
    BY <1>3, <1>8, <2>1, <2>4, <2>5, <2>6 DEF Answer
<1>11. CASE ~ \E j \in 1..n : Fits(cs[j], k, TRUE)
  <2>1. /\ \A j \in DOMAIN cs : ~Fits(cs[j], k, TRUE)
        /\ \A a \in DOMAIN lines : ~Fits(lines[a], k, TRUE)
    BY <1>8, <1>11, <1>9 DEF SameFirst
  <2>2. GetCred(cs, k, TRUE) = 0
    BY <2>1, GetCredNone
  <2>3. GetCred(lines, k, TRUE) = 0
    BY <2>1, GetCredNone
  <2> QED
    BY <1>3, <1>8, <2>2, <2>3 DEF Answer
<1> QED
  BY <1>10, <1>11

-----------------------------------------------------------------------------
(* The inductive invariant.                                                  *)

Types ==
  /\ creds \in Seq(Entries) /\ Len(creds) <= MaxCreds
  /\ pc \in {"idle", "connect", "respond", "prompt", "cleanup", "body"}
  /\ url \in Urls /\ authFor \in Urls
  /\ auth \in Tokens \cup {NoTok} /\ rejected \subseteq Tokens
  /\ prompts \in 0..MaxPrompt /\ hops \in 0..MaxHops

MgrType == mgr \in BOOLEAN

\* Descriptors; while a request is under way, pSsl is an object that counts.
Net ==
  /\ sockFd \in Nat /\ pSsl \in Nat /\ ssls \in Nat
  /\ openFds \subseteq Nat \ {0} /\ IsFiniteSet(openFds)
  /\ loose \subseteq {"refused", "one step", "closed twice", "broke"}
  /\ pc # "idle" /\ pSsl # 0 => ssls # 0

\* What was refused belongs to the request, and to the token it sends.
Refusals ==
  /\ pc = "idle" => auth = NoTok /\ rejected = {}
  /\ pc \in {"connect", "respond"} /\ auth = NoTok => rejected = {}
  /\ ResendOnlyShadowed

\* What CredMngr_authFailed will withdraw, if it is valid, holds the token that is sent.
AskedFor == [srv |-> authFor.srv, cut |-> FALSE, ds |-> authFor.ds]

SentFirst ==
  pc \in {"connect", "respond"} /\ auth # NoTok =>
    LET i == GetCred(creds, AskedFor, FALSE) IN i # 0 /\ creds[i].valid => creds[i].tok = auth

\* The descriptor a request holds, and that it is the only one that is open.
Fd == IF pSsl # 0 THEN pSsl ELSE sockFd

HoldsNone == pSsl = 0 /\ sockFd = 0 /\ openFds = {} /\ ssls = 0
HoldsOne == Fd # 0 /\ openFds = {Fd} /\ ssls = IF pSsl # 0 THEN 1 ELSE 0

Spoilt == loose \cap {"refused", "one step", "broke"} # {}

Held ==
  \/ Spoilt
  \/ /\ loose = {}
     /\ pc = "idle" => openFds = {} /\ ssls = 0
     /\ pc \in {"connect", "prompt"} => HoldsNone
     /\ pc \in {"respond", "body"} => HoldsOne
     /\ pc = "cleanup" => HoldsNone \/ HoldsOne

IInv == Types /\ MgrType /\ Net /\ Ordered(creds) /\ Refusals /\ SentFirst /\ Held

\* The invariant holds when the program starts.
LEMMA InitInv == Init => IInv
<1> SUFFICES ASSUME Init PROVE IInv
  OBVIOUS
<1> USE HttpAssumption DEF Init
<1>1. Types
  BY DEF Types
<1>2. MgrType
  BY Zenon DEF MgrType
<1>3. Net
  BY FS_EmptySet DEF Net
<1>4. Ordered(creds)
  BY DEF Ordered
<1>5. Refusals
  BY DEF Refusals, ResendOnlyShadowed
<1>6. SentFirst
  BY DEF SentFirst
<1>7. Held
  BY DEF Held
<1> QED
  BY <1>1, <1>2, <1>3, <1>4, <1>5, <1>6, <1>7 DEF IInv

\* A key a request asks for is one an entry can have.
LEMMA AskedType ==
  ASSUME Types
  PROVE  Asked.srv \in Servers /\ Asked.ds \in Datasets /\ Asked.cut = FALSE
  BY DEF Types, Asked, Urls

\* Status 401: at most the first entry for the url is withdrawn, because a token was
\* refused; then the first entry still valid is sent, if there is one.
LEMMA AuthReqFacts ==
  ASSUME Types, AuthReq
  PROVE  /\ Retouched(creds, creds')
         /\ \A i \in DOMAIN creds :
              creds[i].valid /\ ~creds'[i].valid
              => auth # NoTok /\ i = GetCred(creds, Asked, FALSE)
         /\ pc' = "connect" =>
              LET i == GetCred(creds', Asked, TRUE)
              IN  i # 0 /\ auth' = creds'[i].tok /\ authFor' = url
         /\ pc' = "connect" /\ auth # NoTok => Shadowed'
<1>1. creds' = IF auth # NoTok /\ mgr THEN AuthFailed(creds, Asked) ELSE creds
  BY DEF AuthReq
<1>2. /\ url' = url
      /\ \/ ~mgr /\ pc' = "cleanup"
         \/ /\ mgr /\ pc' = "connect" /\ GetCred(creds', Asked, TRUE) # 0
            /\ auth' = creds'[GetCred(creds', Asked, TRUE)].tok /\ authFor' = url
         \/ mgr /\ pc' = "prompt"
  BY DEF AuthReq
<1>3. creds \in Seq(Entries)
  BY DEF Types
<1>4. CASE auth # NoTok /\ mgr
  <2>1. PICK f : f = GetCred(creds, Asked, FALSE)
    OBVIOUS
  <2>2. creds' = AuthFailed(creds, Asked)
    BY <1>1, <1>4
  <2>3. Retouched(creds, creds')
    BY <1>3, <2>2, AuthFailedFacts
  <2>4. \A i \in DOMAIN creds :
          /\ i = f => ~creds'[i].valid
          /\ i # f => creds'[i] = creds[i]
    <3>1. FirstWithdrawn(creds, creds', f)
      BY <1>3, <2>1, <2>2, AuthFailedFacts
    <3> QED
      BY <3>1 DEF FirstWithdrawn
  <2>5. ASSUME pc' = "connect" PROVE Shadowed'
    <3>1. PICK i : i = GetCred(creds', Asked, TRUE)
      OBVIOUS
    <3>2. creds' \in Seq(Entries) /\ Len(creds') = Len(creds)
      BY <2>3 DEF Retouched
    <3>3. i # 0
      BY <1>2, <2>5, <3>1
    <3>4. i \in DOMAIN creds'
      BY <3>1, <3>2, <3>3, GetCredFacts
    <3>5. Fits(creds'[i], Asked, TRUE)
      BY <3>1, <3>2, <3>3, GetCredFacts
    <3>6. i \in DOMAIN creds /\ i # f
      <4>1. i \in DOMAIN creds /\ creds'[i].valid
        BY <1>3, <3>2, <3>4, <3>5 DEF Fits
      <4> QED
        BY <2>4, <4>1
    <3>7. Matches(creds[i], Asked)
      BY <2>4, <3>5, <3>6 DEF Fits
    <3>8. f # 0
      BY <1>3, <2>1, <3>6, <3>7, GetCredFacts DEF Fits
    <3>9. f \in DOMAIN creds /\ Matches(creds[f], Asked) /\ f <= i
      BY <1>3, <2>1, <3>6, <3>7, <3>8, GetCredFacts DEF Fits
    <3>10. Matches(creds'[f], Asked)
      BY <2>3, <3>9 DEF Retouched, SameKeys, Matches
    <3>11. f < i
      BY <1>3, <3>6, <3>9
    <3>12. f \in DOMAIN creds' /\ Asked' = Asked
      BY <1>2, <1>3, <3>2, <3>9 DEF Asked
    <3> QED
      BY <3>4, <3>5, <3>10, <3>11, <3>12 DEF Shadowed, Fits
  <2> QED
    BY <1>2, <1>4, <2>1, <2>3, <2>4, <2>5
<1>5. CASE ~(auth # NoTok /\ mgr)
  <2>1. creds' = creds
    BY <1>1, <1>5
  <2>2. Retouched(creds, creds')
    BY <1>3, <2>1 DEF Retouched, SameKeys
  <2>3. pc' = "connect" => auth = NoTok
    BY <1>2, <1>5
  <2> QED
    BY <1>2, <2>1, <2>2, <2>3
<1> QED
  BY <1>4, <1>5

\* What is sent next is a token.
LEMMA SentIsToken ==
  ASSUME Types, AuthReq, pc' = "connect"
  PROVE  auth' \in Tokens /\ auth' # NoTok
<1>1. PICK i : i = GetCred(creds', Asked, TRUE)
  OBVIOUS
<1>2. i # 0 /\ auth' = creds'[i].tok
  BY <1>1, AuthReqFacts
<1>3. creds' \in Seq(Entries)
  BY AuthReqFacts DEF Retouched
<1>4. i \in DOMAIN creds'
  BY <1>1, <1>2, <1>3, GetCredFacts
<1>5. creds'[i] \in Entries
  BY <1>3, <1>4
<1> QED
  BY <1>2, <1>5, HttpAssumption DEF Entries

\* The table and the scalars keep their types and their bounds.
LEMMA TypesKept ==
  ASSUME IInv, [Next]_vars
  PROVE  Types'
<1> USE HttpAssumption
<1>1. Types /\ creds \in Seq(Entries) /\ Len(creds) \in Nat
  BY DEF IInv, Types
<1>2. ASSUME NEW k \in Urls, NEW t \in Tokens, AddUserPass(k, t)
      PROVE  Types'
  <2>1. PICK c : c = [srv |-> k.srv, cut |-> FALSE, ds |-> k.ds, tok |-> t, valid |-> TRUE]
    OBVIOUS
  <2>2. c \in Entries
    BY <2>1 DEF Urls, Entries
  <2>3. creds' = AddCred(creds, c) /\ Len(creds) < MaxCreds
    BY <1>2, <2>1 DEF AddUserPass
  <2>4. Grown(creds, creds', 1)
    BY <1>1, <2>2, <2>3, AddCredGrows
  <2>5. creds' \in Seq(Entries) /\ Len(creds') <= MaxCreds
    BY <1>1, <2>3, <2>4 DEF Grown
  <2>6. UNCHANGED <<pc, url, authFor, auth, rejected, prompts, hops>>
    BY <1>2 DEF AddUserPass, reqVars
  <2> QED
    BY <1>1, <2>5, <2>6 DEF Types
<1>3. ASSUME NEW lines \in KeyFiles, LoadFile(lines)
      PROVE  Types'
  <2>1. lines \in Seq(Entries)
    BY KeyFileAssumption
  <2>2. creds' = Load(creds, lines).creds /\ Len(creds) + Len(lines) <= MaxCreds
    BY <1>3 DEF LoadFile
  <2>3. Grown(creds, creds', Len(lines))
    BY <1>1, <2>1, <2>2, LoadGrows
  <2>4. creds' \in Seq(Entries) /\ Len(creds') <= MaxCreds
    BY <1>1, <2>1, <2>2, <2>3 DEF Grown
  <2>5. UNCHANGED <<pc, url, authFor, auth, rejected, prompts, hops>>
    BY <1>3 DEF LoadFile, reqVars
  <2> QED
    BY <1>1, <2>4, <2>5 DEF Types
<1>4. ASSUME NEW u \in Urls, NEW m \in BOOLEAN, Request(u, m)
      PROVE  Types'
  BY <1>1, <1>4 DEF Request, Types
<1>5. ASSUME NEW t \in Tokens, PromptAnswer(t)
      PROVE  Types'
  <2>1. creds' = Answered(creds, Asked, t)
        /\ (Len(creds) < MaxCreds \/ GetCred(creds, Asked, FALSE) # 0)
    BY <1>5 DEF PromptAnswer
  <2>2. /\ Grown(creds, creds', 1)
        /\ GetCred(creds, Asked, FALSE) # 0 => Len(creds') = Len(creds)
    BY <1>1, <2>1, AskedType, AnsweredFacts
  <2>3. creds' \in Seq(Entries) /\ Len(creds') <= MaxCreds
    <3>1. creds' \in Seq(Entries) /\ Len(creds') <= Len(creds) + 1 /\ Len(creds) <= MaxCreds
      BY <1>1, <2>2 DEF Grown, Types
    <3>2. Len(creds') \in Nat /\ MaxCreds \in Nat
      BY <3>1
    <3>3. CASE Len(creds) < MaxCreds
      BY <1>1, <3>1, <3>2, <3>3
    <3>4. CASE GetCred(creds, Asked, FALSE) # 0
      BY <2>2, <3>1, <3>4
    <3> QED
      BY <2>1, <3>3, <3>4
  <2>4. /\ pc' = "connect" /\ auth' = t /\ authFor' = url /\ rejected' = {}
        /\ prompts < MaxPrompt /\ prompts' = prompts + 1 /\ UNCHANGED <<url, hops>>
    BY <1>5 DEF PromptAnswer
  <2> QED
    BY <1>1, <2>3, <2>4 DEF Types
<1>6. CASE AuthReq
  <2>1. Retouched(creds, creds')
    BY <1>1, <1>6, AuthReqFacts
  <2>2. creds' \in Seq(Entries) /\ Len(creds') <= MaxCreds
    BY <1>1, <2>1 DEF Retouched, Types
  <2>3. /\ pc' \in {"cleanup", "connect", "prompt"}
        /\ rejected' = rejected \cup ({auth} \ {NoTok}) /\ UNCHANGED <<url, prompts, hops>>
        /\ \/ UNCHANGED <<auth, authFor>>
           \/ pc' = "connect" /\ authFor' = url
    BY <1>6 DEF AuthReq
  <2>4. auth' \in Tokens \cup {NoTok}
    <3>1. CASE UNCHANGED auth
      BY <1>1, <3>1 DEF Types
    <3>2. CASE pc' = "connect"
      BY <1>1, <1>6, <3>2, SentIsToken
    <3> QED
      BY <2>3, <3>1, <3>2
  <2> QED
    BY <1>1, <2>2, <2>3, <2>4 DEF Types
<1>7. ASSUME NEW u \in Urls, Redirect(u)
      PROVE  Types'
  BY <1>1, <1>7 DEF Redirect, Types
<1>8. CASE PromptAgain
  BY <1>1, <1>8 DEF PromptAgain, Types
<1>9. CASE PromptRefuse
  BY <1>1, <1>9 DEF PromptRefuse, Types
<1>10. CASE \/ ConnectFail \/ ConnectRefused \/ Connect \/ RespondError \/ RespondOk
            \/ UNCHANGED vars
  BY <1>1, <1>10 DEF ConnectFail, ConnectRefused, Connect, RespondError, RespondOk, vars,
     reqVars, Types
<1>11. CASE Cleanup \/ BodyDone \/ BodyBroke
  <2>1. Return
    BY <1>11 DEF Cleanup, BodyDone, BodyBroke
  <2> QED
    BY <1>1, <2>1 DEF Return, Types
<1> QED
  BY <1>2, <1>3, <1>4, <1>5, <1>6, <1>7, <1>8, <1>9, <1>10, <1>11 DEF Next, Step

\* Whether the caller gave a manager stays a truth value.
LEMMA MgrKept ==
  ASSUME IInv, [Next]_vars
  PROVE  MgrType'
<1> SUFFICES mgr' \in BOOLEAN
  BY Zenon DEF MgrType
<1>1. mgr \in BOOLEAN
  BY DEF IInv, MgrType
<1>2. ASSUME NEW u \in Urls, NEW m \in BOOLEAN, Request(u, m)
      PROVE  mgr' \in BOOLEAN
  BY <1>2, Zenon DEF Request
<1>3. CASE Cleanup \/ BodyDone \/ BodyBroke
  BY <1>3, Zenon DEF Cleanup, BodyDone, BodyBroke, Return
<1>4. ASSUME NEW k \in Urls, NEW t \in Tokens, AddUserPass(k, t)
      PROVE  mgr' \in BOOLEAN
  BY <1>1, <1>4, Zenon DEF AddUserPass, reqVars
<1>5. ASSUME NEW lines \in KeyFiles, LoadFile(lines)
      PROVE  mgr' \in BOOLEAN
  BY <1>1, <1>5, Zenon DEF LoadFile, reqVars
<1>6. ASSUME NEW u \in Urls, Redirect(u)
      PROVE  mgr' \in BOOLEAN
  BY <1>1, <1>6, Zenon DEF Redirect
<1>7. ASSUME NEW t \in Tokens, PromptAnswer(t)
      PROVE  mgr' \in BOOLEAN
  BY <1>1, <1>7, Zenon DEF PromptAnswer
<1>8. CASE AuthReq
  <2>1. mgr' = mgr
    BY <1>8 DEF AuthReq
  <2> QED
    BY <1>1, <2>1, Zenon
<1>9. CASE \/ ConnectFail \/ ConnectRefused \/ Connect \/ RespondError \/ RespondOk
           \/ PromptAgain \/ PromptRefuse \/ UNCHANGED vars
  <2>1. mgr' = mgr
    BY <1>9, Zenon DEF ConnectFail, ConnectRefused, Connect, RespondError, RespondOk,
       PromptAgain, PromptRefuse, vars, reqVars
  <2> QED
    BY <1>1, <2>1, Zenon
<1> QED
  BY <1>2, <1>3, <1>4, <1>5, <1>6, <1>7, <1>8, <1>9, Zenon DEF Next, Step

\* A descriptor that is made is a new one.
LEMMA NewFdFacts ==
  ASSUME openFds \subseteq Nat \ {0}, IsFiniteSet(openFds)
  PROVE  NewFd \in Nat \ {0} /\ NewFd \notin openFds
<1>1. PICK n \in Nat : n = Cardinality(openFds)
  BY FS_CardinalityType
<1>2. PICK S : S = 1..(n + 1)
  OBVIOUS
<1>3. IsFiniteSet(S) /\ Cardinality(S) = n + 1
  BY <1>2, FS_Interval
<1>4. ~(S \subseteq openFds)
  <2>1. S \subseteq openFds => Cardinality(S) <= Cardinality(openFds)
    BY FS_Subset
  <2> QED
    BY <1>1, <1>3, <2>1
<1>5. PICK T : T = S \ openFds
  OBVIOUS
<1>6. T # {} /\ T \subseteq Nat
  BY <1>2, <1>4, <1>5
<1>7. NewFd = CHOOSE x \in T : \A y \in T : x <= y
  BY <1>1, <1>2, <1>5, Zenon DEF NewFd, Min
<1>8. NewFd \in T
  BY <1>6, <1>7, LeastChosen
<1> QED
  BY <1>2, <1>5, <1>8

\* Descriptors and SSL objects keep their types.
LEMMA NetKept ==
  ASSUME IInv, [Next]_vars
  PROVE  Net'
<1>1. Net
  BY DEF IInv
<1>2. sockFd \in Nat /\ pSsl \in Nat /\ ssls \in Nat
  BY <1>1 DEF Net
<1>3. pc # "idle" /\ pSsl # 0 => ssls # 0
  BY <1>1 DEF Net
<1>4. pc # "idle" /\ pSsl # 0 => ssls - 1 \in Nat
  BY <1>2, <1>3
<1>5. ASSUME NEW fd PROVE IsFiniteSet(openFds \ {fd}) /\ openFds \ {fd} \subseteq Nat \ {0}
  BY <1>1, FS_Subset DEF Net
<1>6. IsFiniteSet(openFds \cup {NewFd}) /\ NewFd \in Nat \ {0}
  BY <1>1, NewFdFacts, FS_AddElement DEF Net
<1>7. ASSUME NEW k \in Urls, NEW t \in Tokens, AddUserPass(k, t)
      PROVE  Net'
  BY <1>1, <1>7 DEF AddUserPass, netVars, Net
<1>8. ASSUME NEW lines \in KeyFiles, LoadFile(lines)
      PROVE  Net'
  BY <1>1, <1>8 DEF LoadFile, netVars, Net
<1>9. ASSUME NEW u \in Urls, NEW m \in BOOLEAN, Request(u, m)
      PROVE  Net'
  BY <1>9, FS_EmptySet DEF Request, Net
<1>10. CASE ConnectFail \/ RespondError \/ RespondOk
  BY <1>1, <1>10 DEF ConnectFail, RespondError, RespondOk, netVars, Net
<1>11. CASE ConnectRefused
  BY <1>1, <1>6, <1>11 DEF ConnectRefused, Net
<1>12. CASE Connect
  <2>1. PICK fd \in Nat \ {0} : fd = NewFd /\ IsFiniteSet(openFds \cup {fd})
    BY <1>6
  <2>2. /\ pc' = "respond" /\ openFds' = openFds \cup {fd} /\ UNCHANGED loose
        /\ \/ pSsl' = fd /\ sockFd' = 0 /\ ssls' = ssls + 1
           \/ sockFd' = fd /\ UNCHANGED <<pSsl, ssls>>
    BY <1>12, <2>1 DEF Connect
  <2>3. pc = "connect"
    BY <1>12 DEF Connect
  <2>4. sockFd' \in Nat /\ pSsl' \in Nat /\ ssls' \in Nat
    BY <1>2, <2>1, <2>2
  <2>5. openFds' \subseteq Nat \ {0} /\ IsFiniteSet(openFds')
    BY <1>1, <2>1, <2>2 DEF Net
  <2>6. pSsl' # 0 => ssls' # 0
    BY <1>2, <1>3, <2>1, <2>2, <2>3
  <2> QED
    BY <1>1, <2>2, <2>4, <2>5, <2>6 DEF Net
<1>13. ASSUME NEW u \in Urls, Redirect(u)
       PROVE  Net'
  <2>1. PICK fd : fd = Fd
    OBVIOUS
  <2>2. /\ pc = "respond" /\ openFds' = openFds \ {fd} /\ sockFd' = 0 /\ pSsl' = 0
        /\ ssls' = (IF pSsl # 0 THEN ssls - 1 ELSE ssls) /\ UNCHANGED loose
    BY <2>1, <1>13 DEF Redirect, Close, Fd
  <2>3. openFds' \subseteq Nat \ {0} /\ IsFiniteSet(openFds')
    BY <1>5, <2>2
  <2>4. sockFd' \in Nat /\ pSsl' \in Nat /\ ssls' \in Nat
    <3>1. pSsl # 0 => ssls - 1 \in Nat
      <4>1. pc # "idle"
        BY <1>13 DEF Redirect
      <4> QED
        BY <1>4, <4>1
    <3>2. ssls' = ssls \/ (pSsl # 0 /\ ssls' = ssls - 1)
      BY <2>2
    <3>3. sockFd' = 0 /\ pSsl' \in {0, pSsl}
      BY <2>2
    <3> QED
      BY <1>2, <3>1, <3>2, <3>3
  <2>5. loose' \subseteq {"refused", "one step", "closed twice", "broke"}
    BY <1>1, <2>2 DEF Net
  <2>6. pc' # "idle" /\ pSsl' # 0 => ssls' # 0
    BY <1>2, <1>3, <2>2
  <2> QED
    BY <2>3, <2>4, <2>5, <2>6 DEF Net
<1>14. CASE AuthReq
  <2>1. PICK fd : fd = Fd
    OBVIOUS
  <2>2. /\ pc = "respond" /\ openFds' = openFds \ {fd} /\ sockFd' = 0
        /\ \/ pSsl = 0 /\ UNCHANGED <<pSsl, ssls, loose>>
           \/ pSsl # 0 /\ pSsl' = 0 /\ ssls' = ssls - 1 /\ UNCHANGED loose
           \/ pSsl # 0 /\ loose' = loose \cup {"one step"} /\ UNCHANGED <<pSsl, ssls>>
    BY <2>1, <1>14 DEF AuthReq, Close, Fd
  <2>3. openFds' \subseteq Nat \ {0} /\ IsFiniteSet(openFds')
    BY <1>5, <2>2
  <2>4. sockFd' \in Nat /\ pSsl' \in Nat /\ ssls' \in Nat
    <3>1. pSsl # 0 => ssls - 1 \in Nat
      <4>1. pc # "idle"
        BY <1>14 DEF AuthReq
      <4> QED
        BY <1>4, <4>1
    <3>2. ssls' = ssls \/ (pSsl # 0 /\ ssls' = ssls - 1)
      BY <2>2
    <3>3. sockFd' = 0 /\ pSsl' \in {0, pSsl}
      BY <2>2
    <3> QED
      BY <1>2, <3>1, <3>2, <3>3
  <2>5. loose' \subseteq {"refused", "one step", "closed twice", "broke"}
    BY <1>1, <2>2 DEF Net
  <2>6. pc' # "idle" /\ pSsl' # 0 => ssls' # 0
    BY <1>2, <1>3, <2>2
  <2> QED
    BY <2>3, <2>4, <2>5, <2>6 DEF Net
<1>15. ASSUME NEW t \in Tokens, PromptAnswer(t)
       PROVE  Net'
  BY <1>1, <1>15 DEF PromptAnswer, netVars, Net
<1>16. CASE PromptAgain \/ PromptRefuse
  BY <1>1, <1>16 DEF PromptAgain, PromptRefuse, netVars, Net
<1>17. CASE Cleanup
  <2>1. PICK fd : fd = Fd
    OBVIOUS
  <2>2. /\ pc = "cleanup" /\ pc' = "idle" /\ openFds' = openFds \ {fd} /\ sockFd' = 0
        /\ UNCHANGED pSsl /\ (UNCHANGED ssls \/ (pSsl # 0 /\ ssls' = ssls - 1))
        /\ loose' \subseteq loose \cup {"one step", "closed twice"}
    BY <2>1, <1>17 DEF Cleanup, Return, Close, Fd
  <2>3. openFds' \subseteq Nat \ {0} /\ IsFiniteSet(openFds')
    BY <1>5, <2>2
  <2>4. sockFd' \in Nat /\ pSsl' \in Nat /\ ssls' \in Nat
    <3>1. pSsl # 0 => ssls - 1 \in Nat
      <4>1. pc # "idle"
        BY <1>17 DEF Cleanup
      <4> QED
        BY <1>4, <4>1
    <3>2. ssls' = ssls \/ (pSsl # 0 /\ ssls' = ssls - 1)
      BY <2>2
    <3>3. sockFd' = 0 /\ pSsl' \in {0, pSsl}
      BY <2>2
    <3> QED
      BY <1>2, <3>1, <3>2, <3>3
  <2>5. loose' \subseteq {"refused", "one step", "closed twice", "broke"}
    BY <1>1, <2>2 DEF Net
  <2>6. pc' # "idle" /\ pSsl' # 0 => ssls' # 0
    BY <1>2, <1>3, <2>2
  <2> QED
    BY <2>3, <2>4, <2>5, <2>6 DEF Net
<1>18. CASE BodyDone
  <2>1. PICK fd : fd = Fd
    OBVIOUS
  <2>2. /\ pc = "body" /\ pc' = "idle" /\ openFds' = openFds \ {fd} /\ sockFd' = 0
        /\ pSsl' = 0 /\ ssls' = (IF pSsl # 0 THEN ssls - 1 ELSE ssls) /\ UNCHANGED loose
    BY <2>1, <1>18 DEF BodyDone, Return, Close, Fd
  <2>3. openFds' \subseteq Nat \ {0} /\ IsFiniteSet(openFds')
    BY <1>5, <2>2
  <2>4. sockFd' \in Nat /\ pSsl' \in Nat /\ ssls' \in Nat
    <3>1. pSsl # 0 => ssls - 1 \in Nat
      <4>1. pc # "idle"
        BY <1>18 DEF BodyDone
      <4> QED
        BY <1>4, <4>1
    <3>2. ssls' = ssls \/ (pSsl # 0 /\ ssls' = ssls - 1)
      BY <2>2
    <3>3. sockFd' = 0 /\ pSsl' \in {0, pSsl}
      BY <2>2
    <3> QED
      BY <1>2, <3>1, <3>2, <3>3
  <2>5. loose' \subseteq {"refused", "one step", "closed twice", "broke"}
    BY <1>1, <2>2 DEF Net
  <2>6. pc' # "idle" /\ pSsl' # 0 => ssls' # 0
    BY <1>2, <1>3, <2>2
  <2> QED
    BY <2>3, <2>4, <2>5, <2>6 DEF Net
<1>19. CASE BodyBroke
  BY <1>1, <1>19 DEF BodyBroke, Return, Net
<1>20. CASE UNCHANGED vars
  BY <1>1, <1>20 DEF vars, netVars, Net
<1> QED
  BY <1>7, <1>8, <1>9, <1>10, <1>11, <1>12, <1>13, <1>14, <1>15, <1>16, <1>17, <1>18, <1>19,
     <1>20 DEF Next, Step

\* Whoever writes the table leaves the particular entries before the general ones.
LEMMA OrderKept ==
  ASSUME IInv, [Next]_vars
  PROVE  Ordered(creds)'
<1>1. Types /\ Ordered(creds) /\ creds \in Seq(Entries)
  BY DEF IInv, Types
<1>2. ASSUME creds' = creds PROVE Ordered(creds')
  BY <1>1, <1>2
<1>3. ASSUME NEW k \in Urls, NEW t \in Tokens, AddUserPass(k, t)
      PROVE  Ordered(creds')
  <2>1. PICK c : c = [srv |-> k.srv, cut |-> FALSE, ds |-> k.ds, tok |-> t, valid |-> TRUE]
    OBVIOUS
  <2>2. c \in Entries
    BY <2>1 DEF Urls, Entries
  <2>3. creds' = AddCred(creds, c)
    BY <1>3, <2>1 DEF AddUserPass
  <2>4. Grown(creds, creds', 1)
    BY <1>1, <2>2, <2>3, AddCredGrows
  <2> QED
    BY <1>1, <2>4 DEF Grown
<1>4. ASSUME NEW lines \in KeyFiles, LoadFile(lines)
      PROVE  Ordered(creds')
  <2>1. lines \in Seq(Entries) /\ creds' = Load(creds, lines).creds
    BY <1>4, KeyFileAssumption DEF LoadFile
  <2>2. Grown(creds, creds', Len(lines))
    BY <1>1, <2>1, LoadGrows
  <2> QED
    BY <1>1, <2>2 DEF Grown
<1>5. ASSUME NEW t \in Tokens, PromptAnswer(t)
      PROVE  Ordered(creds')
  <2>1. creds' = Answered(creds, Asked, t)
    BY <1>5 DEF PromptAnswer
  <2>2. Grown(creds, creds', 1)
    BY <1>1, <2>1, AskedType, AnsweredFacts
  <2> QED
    BY <1>1, <2>2 DEF Grown
<1>6. CASE AuthReq
  BY <1>1, <1>6, AuthReqFacts, RetouchedOrdered
<1>7. ASSUME NEW u, (\E m : Request(u, m)) \/ Redirect(u)
      PROVE  Ordered(creds')
  BY <1>2, <1>7 DEF Request, Redirect
<1>8. CASE Cleanup \/ BodyDone \/ BodyBroke
  BY <1>2, <1>8 DEF Cleanup, BodyDone, BodyBroke, Return
<1>9. CASE \/ ConnectFail \/ ConnectRefused \/ Connect \/ RespondError \/ RespondOk
           \/ PromptAgain \/ PromptRefuse \/ UNCHANGED vars
  BY <1>2, <1>9 DEF ConnectFail, ConnectRefused, Connect, RespondError, RespondOk,
     PromptAgain, PromptRefuse, vars
<1> QED
  BY <1>3, <1>4, <1>5, <1>6, <1>7, <1>8, <1>9 DEF Next, Step

\* In these places nothing is said about what was refused or sent.
LEMMA ElsewhereKept ==
  ASSUME pc' \in {"prompt", "cleanup", "body"}
  PROVE  Refusals' /\ SentFirst'
  BY DEF Refusals, ResendOnlyShadowed, SentFirst

\* Nor is anything left of them when the request has returned.
LEMMA ReturnKept ==
  ASSUME Return
  PROVE  Refusals' /\ SentFirst'
  BY DEF Return, Refusals, ResendOnlyShadowed, SentFirst

\* A token that was refused is only sent again beside an entry that shadows it.
LEMMA RefusalsKept ==
  ASSUME IInv, [Next]_vars
  PROVE  Refusals'
<1>1. Types /\ Refusals
  BY DEF IInv
<1>2. ASSUME UNCHANGED <<creds, url, pc, auth, rejected>>
      PROVE  Refusals'
  BY <1>1, <1>2 DEF Refusals, ResendOnlyShadowed, Shadowed, Asked
<1>3. ASSUME pc = "idle", pc' = "idle", UNCHANGED <<auth, rejected>>
      PROVE  Refusals'
  BY <1>1, <1>3 DEF Refusals, ResendOnlyShadowed
<1>4. ASSUME NEW k \in Urls, NEW t \in Tokens, AddUserPass(k, t)
      PROVE  Refusals'
  BY <1>3, <1>4 DEF AddUserPass, reqVars
<1>5. ASSUME NEW lines \in KeyFiles, LoadFile(lines)
      PROVE  Refusals'
  BY <1>3, <1>5 DEF LoadFile, reqVars
<1>6. ASSUME NEW u \in Urls, NEW m \in BOOLEAN, Request(u, m)
      PROVE  Refusals'
  BY <1>1, <1>6 DEF Request, Refusals, ResendOnlyShadowed
<1>7. CASE Connect
  BY <1>1, <1>7 DEF Connect, reqVars, Refusals, ResendOnlyShadowed, Shadowed, Asked
<1>8. ASSUME rejected' = {}, pc' # "idle" PROVE Refusals'
  BY <1>8 DEF Refusals, ResendOnlyShadowed
<1>9. ASSUME NEW u \in Urls, Redirect(u)
      PROVE  Refusals'
  BY <1>8, <1>9 DEF Redirect
<1>10. ASSUME NEW t \in Tokens, PromptAnswer(t)
       PROVE  Refusals'
  BY <1>8, <1>10 DEF PromptAnswer
<1>11. CASE AuthReq
  <2>1. /\ pc = "respond" /\ pc' \in {"connect", "prompt", "cleanup"}
        /\ rejected' = rejected \cup ({auth} \ {NoTok})
    BY <1>11 DEF AuthReq
  <2>2. CASE pc' = "connect" /\ auth # NoTok
    <3>1. Shadowed'
      BY <1>1, <1>11, <2>2, AuthReqFacts
    <3>2. auth' # NoTok
      BY <1>1, <1>11, <2>2, SentIsToken
    <3> QED
      BY <2>2, <3>1, <3>2 DEF Refusals, ResendOnlyShadowed
  <2>3. CASE pc' = "connect" /\ auth = NoTok
    <3>1. rejected' = {}
      BY <1>1, <2>1, <2>3 DEF Refusals
    <3> QED
      BY <1>8, <2>3, <3>1
  <2> QED
    BY <2>1, <2>2, <2>3, ElsewhereKept
<1>12. CASE Cleanup \/ BodyDone \/ BodyBroke
  BY <1>12, ReturnKept DEF Cleanup, BodyDone, BodyBroke
<1>13. CASE ConnectFail \/ ConnectRefused \/ RespondError \/ RespondOk \/ PromptRefuse
  BY <1>13, ElsewhereKept DEF ConnectFail, ConnectRefused, RespondError, RespondOk,
     PromptRefuse
<1>14. CASE PromptAgain
  BY <1>14, ElsewhereKept DEF PromptAgain
<1>15. CASE UNCHANGED vars
  BY <1>2, <1>15 DEF vars, reqVars
<1> QED
  BY <1>4, <1>5, <1>6, <1>7, <1>9, <1>10, <1>11, <1>12, <1>13, <1>14, <1>15 DEF Next, Step

\* What would be withdrawn is what was sent.
LEMMA SentFirstKept ==
  ASSUME IInv, [Next]_vars
  PROVE  SentFirst'
<1>1. Types /\ Refusals /\ SentFirst /\ creds \in Seq(Entries)
  BY DEF IInv, Types
<1>2. ASSUME UNCHANGED <<creds, auth, authFor>>, pc' \in {"connect", "respond"} => pc \in {"connect", "respond"}
      PROVE  SentFirst'
  BY <1>1, <1>2 DEF SentFirst, AskedFor
<1>3. ASSUME pc' = "idle" PROVE SentFirst'
  BY <1>3 DEF SentFirst
<1>4. ASSUME NEW k \in Urls, NEW t \in Tokens, AddUserPass(k, t)
      PROVE  SentFirst'
  BY <1>3, <1>4 DEF AddUserPass
<1>5. ASSUME NEW lines \in KeyFiles, LoadFile(lines)
      PROVE  SentFirst'
  BY <1>3, <1>5 DEF LoadFile
<1>6. ASSUME NEW u \in Urls, NEW m \in BOOLEAN, Request(u, m)
      PROVE  SentFirst'
  BY <1>1, <1>6 DEF Request, Refusals, SentFirst
<1>7. CASE Connect
  BY <1>2, <1>7 DEF Connect, reqVars
<1>8. ASSUME NEW u \in Urls, Redirect(u)
      PROVE  SentFirst'
  BY <1>2, <1>8 DEF Redirect
<1>9. ASSUME NEW t \in Tokens, PromptAnswer(t)
      PROVE  SentFirst'
  <2>1. creds' = Answered(creds, Asked, t) /\ auth' = t /\ authFor' = url
    BY <1>9 DEF PromptAnswer
  <2>2. Holds(creds', Asked, t)
    BY <1>1, <2>1, AskedType, AnsweredFacts
  <2>3. AskedFor' = Asked
    BY <2>1 DEF AskedFor, Asked
  <2> QED
    BY <2>1, <2>2, <2>3 DEF SentFirst, Holds
<1>10. CASE AuthReq
  <2>1. pc' \in {"connect", "prompt", "cleanup"}
    BY <1>10 DEF AuthReq
  <2>2. CASE pc' = "connect"
    <3>1. PICK i, g : i = GetCred(creds', Asked, TRUE) /\ g = GetCred(creds', Asked, FALSE)
      OBVIOUS
    <3>2. i # 0 /\ auth' = creds'[i].tok /\ authFor' = url
      BY <1>1, <1>10, <2>2, <3>1, AuthReqFacts
    <3>3. creds' \in Seq(Entries)
      BY <1>1, <1>10, AuthReqFacts DEF Retouched
    <3>4. i \in DOMAIN creds'
      BY <3>1, <3>2, <3>3, GetCredFacts
    <3>5. Fits(creds'[i], Asked, TRUE)
      BY <3>1, <3>2, <3>3, GetCredFacts
    <3>6. ASSUME g # 0, creds'[g].valid PROVE creds'[g].tok = auth'
      <4>1. g \in DOMAIN creds'
        BY <3>1, <3>3, <3>6, GetCredFacts
      <4>2. Fits(creds'[g], Asked, FALSE)
        BY <3>1, <3>3, <3>6, GetCredFacts
      <4>3. Fits(creds'[g], Asked, TRUE)
        BY <3>6, <4>2 DEF Fits
      <4>4. i <= g
        BY <3>1, <3>2, <3>3, <4>1, <4>3, GetCredFacts
      <4>5. Fits(creds'[i], Asked, FALSE)
        BY <3>5 DEF Fits
      <4>6. g <= i
        BY <3>1, <3>3, <3>4, <3>6, <4>5, GetCredFacts
      <4>7. i = g
        BY <3>3, <3>4, <4>1, <4>4, <4>6
      <4> QED
        BY <3>2, <4>7
    <3>7. AskedFor' = Asked
      BY <3>2 DEF AskedFor, Asked
    <3> QED
      BY <3>1, <3>6, <3>7 DEF SentFirst
  <2> QED
    BY <2>1, <2>2, ElsewhereKept
<1>11. CASE Cleanup \/ BodyDone \/ BodyBroke
  BY <1>11, ReturnKept DEF Cleanup, BodyDone, BodyBroke
<1>12. CASE ConnectFail \/ ConnectRefused \/ RespondError \/ RespondOk \/ PromptRefuse
  BY <1>12, ElsewhereKept DEF ConnectFail, ConnectRefused, RespondError, RespondOk,
     PromptRefuse
<1>13. CASE PromptAgain
  BY <1>13, ElsewhereKept DEF PromptAgain
<1>14. CASE UNCHANGED vars
  BY <1>2, <1>14 DEF vars, reqVars
<1> QED
  BY <1>4, <1>5, <1>6, <1>7, <1>8, <1>9, <1>10, <1>11, <1>12, <1>13, <1>14 DEF Next, Step

\* A request holds one descriptor at most, and says which.
LEMMA HeldKept ==
  ASSUME IInv, [Next]_vars
  PROVE  Held'
<1>1. Held /\ Net
  BY DEF IInv
<1>2. ASSUME Spoilt, loose \subseteq loose' PROVE Held'
  BY <1>2 DEF Held, Spoilt
<1>3. ASSUME UNCHANGED <<pc, netVars>> PROVE Held'
  BY <1>1, <1>3 DEF Held, HoldsNone, HoldsOne, Spoilt, Fd, netVars
<1>4. ASSUME NEW k \in Urls, NEW t \in Tokens, AddUserPass(k, t)
      PROVE  Held'
  BY <1>3, <1>4 DEF AddUserPass
<1>5. ASSUME NEW lines \in KeyFiles, LoadFile(lines)
      PROVE  Held'
  BY <1>3, <1>5 DEF LoadFile
<1>6. ASSUME NEW u \in Urls, NEW m \in BOOLEAN, Request(u, m)
      PROVE  Held'
  BY <1>6 DEF Request, Held, HoldsNone
<1>7. CASE ConnectFail
  BY <1>1, <1>7 DEF ConnectFail, netVars, Held, HoldsNone, Spoilt
<1>8. CASE ConnectRefused
  BY <1>8 DEF ConnectRefused, Held, Spoilt
<1>9. CASE Connect
  <2>1. PICK fd \in Nat \ {0} : fd = NewFd
    BY <1>1, NewFdFacts DEF Net
  <2>2. /\ pc = "connect" /\ pc' = "respond" /\ openFds' = openFds \cup {fd} /\ loose' = loose
        /\ \/ pSsl' = fd /\ sockFd' = 0 /\ ssls' = ssls + 1
           \/ sockFd' = fd /\ UNCHANGED <<pSsl, ssls>>
    BY <1>9, <2>1 DEF Connect
  <2>3. CASE Spoilt
    BY <1>2, <2>2, <2>3
  <2>4. CASE ~Spoilt
    <3>1. HoldsNone /\ loose = {}
      BY <1>1, <2>2, <2>4 DEF Held
    <3>2. HoldsOne'
      BY <2>1, <2>2, <3>1 DEF HoldsNone, HoldsOne, Fd
    <3> QED
      BY <2>2, <3>1, <3>2 DEF Held
  <2> QED
    BY <2>3, <2>4
<1>10. CASE RespondError \/ RespondOk
  BY <1>1, <1>10 DEF RespondError, RespondOk, netVars, Held, HoldsOne, Fd, Spoilt
<1>11. ASSUME NEW u \in Urls, Redirect(u)
       PROVE  Held'
  <2>1. /\ pc = "respond" /\ pc' \in {"connect", "cleanup"} /\ loose' = loose
        /\ openFds' = openFds \ {Fd} /\ sockFd' = 0 /\ pSsl' = 0
        /\ ssls' = IF pSsl # 0 THEN ssls - 1 ELSE ssls
    BY <1>11 DEF Redirect, Close, Fd
  <2>2. CASE Spoilt
    BY <1>2, <2>1, <2>2
  <2>3. CASE ~Spoilt
    <3>1. HoldsOne /\ loose = {}
      BY <1>1, <2>1, <2>3 DEF Held
    <3>2. HoldsNone'
      BY <2>1, <3>1 DEF HoldsNone, HoldsOne
    <3> QED
      BY <2>1, <3>1, <3>2 DEF Held
  <2> QED
    BY <2>2, <2>3
<1>12. CASE AuthReq
  <2>1. /\ pc = "respond" /\ pc' \in {"connect", "prompt", "cleanup"}
        /\ openFds' = openFds \ {Fd} /\ sockFd' = 0
        /\ \/ pSsl = 0 /\ UNCHANGED <<pSsl, ssls, loose>>
           \/ pSsl # 0 /\ pSsl' = 0 /\ ssls' = ssls - 1 /\ UNCHANGED loose
           \/ pSsl # 0 /\ loose' = loose \cup {"one step"}
    BY <1>12 DEF AuthReq, Close, Fd
  <2>2. CASE Spoilt
    BY <1>2, <2>1, <2>2
  <2>3. CASE loose' = loose \cup {"one step"}
    BY <2>3 DEF Held, Spoilt
  <2>4. CASE ~Spoilt /\ loose' # loose \cup {"one step"}
    <3>1. HoldsOne /\ loose = {} /\ loose' = loose
      BY <1>1, <2>1, <2>4 DEF Held
    <3>2. pSsl' = 0 /\ ssls' = IF pSsl # 0 THEN ssls - 1 ELSE ssls
      BY <2>1, <2>4
    <3>3. openFds' = {} /\ ssls' = 0
      <4>1. openFds' = openFds \ {Fd}
        BY <2>1
      <4> QED
        BY <3>1, <3>2, <4>1 DEF HoldsOne
    <3>4. HoldsNone'
      BY <2>1, <3>2, <3>3 DEF HoldsNone
    <3> QED
      BY <2>1, <3>1, <3>4 DEF Held
  <2> QED
    BY <2>2, <2>3, <2>4
<1>13. ASSUME NEW t \in Tokens, PromptAnswer(t)
       PROVE  Held'
  BY <1>1, <1>13 DEF PromptAnswer, netVars, Held, HoldsNone, Spoilt
<1>14. CASE PromptAgain
  BY <1>3, <1>14 DEF PromptAgain
<1>15. CASE PromptRefuse
  BY <1>1, <1>15 DEF PromptRefuse, netVars, Held, HoldsNone, Spoilt
<1>16. CASE Cleanup
  <2>1. /\ pc = "cleanup" /\ pc' = "idle" /\ openFds' = openFds \ {Fd} /\ loose \subseteq loose'
        /\ (Fd = 0 \/ Fd \in openFds) =>
             \/ pSsl = 0 /\ loose' = loose /\ UNCHANGED ssls
             \/ pSsl # 0 /\ loose' = loose /\ ssls' = ssls - 1
             \/ loose' = loose \cup {"one step"}
    BY <1>16 DEF Cleanup, Return, Close, Fd
  <2>2. CASE Spoilt
    BY <1>2, <2>1, <2>2
  <2>3. CASE loose' = loose \cup {"one step"}
    BY <2>3 DEF Held, Spoilt
  <2>4. CASE ~Spoilt /\ loose' # loose \cup {"one step"}
    <3>1. loose = {} /\ (HoldsNone \/ HoldsOne)
      BY <1>1, <2>1, <2>4 DEF Held
    <3>2. Fd = 0 \/ Fd \in openFds
      BY <3>1 DEF HoldsNone, HoldsOne, Fd
    <3>3. loose' = loose /\ ssls' = IF pSsl # 0 THEN ssls - 1 ELSE ssls
      BY <2>1, <2>4, <3>2
    <3>4. openFds' = {} /\ ssls' = 0
      <4>1. openFds' = openFds \ {Fd}
        BY <2>1
      <4> QED
        BY <3>1, <3>3, <4>1 DEF HoldsNone, HoldsOne
    <3> QED
      BY <2>1, <3>1, <3>3, <3>4 DEF Held
  <2> QED
    BY <2>2, <2>3, <2>4
<1>17. CASE BodyDone
  <2>1. /\ pc = "body" /\ pc' = "idle" /\ openFds' = openFds \ {Fd} /\ loose' = loose
        /\ ssls' = IF pSsl # 0 THEN ssls - 1 ELSE ssls
    BY <1>17 DEF BodyDone, Return, Close, Fd
  <2>2. CASE Spoilt
    BY <1>2, <2>1, <2>2
  <2>3. CASE ~Spoilt
    BY <1>1, <2>1, <2>3 DEF Held, HoldsOne
  <2> QED
    BY <2>2, <2>3
<1>18. CASE BodyBroke
  BY <1>18 DEF BodyBroke, Held, Spoilt
<1>19. CASE UNCHANGED vars
  BY <1>3, <1>19 DEF vars
<1> QED
  BY <1>4, <1>5, <1>6, <1>7, <1>8, <1>9, <1>10, <1>11, <1>12, <1>13, <1>14, <1>15, <1>16,
     <1>17, <1>18, <1>19 DEF Next, Step

\* What a step may withdraw: only AuthReq withdraws, and then the first entry for the url.
LEMMA OnlyRefusedWithdrawn ==
  ASSUME IInv, [Next]_vars, NEW i \in DOMAIN creds, creds[i].valid, ~creds'[i].valid
  PROVE  creds[i].tok = auth \/ authFor # url
<1>1. Types /\ SentFirst /\ creds \in Seq(Entries)
  BY DEF IInv, Types
<1>2. ASSUME NEW n, Grown(creds, creds', n) PROVE FALSE
  BY <1>2 DEF Grown
<1>3. creds' # creds
  OBVIOUS
<1>4. ASSUME NEW k \in Urls, NEW t \in Tokens, AddUserPass(k, t)
      PROVE  FALSE
  <2>1. PICK c : c = [srv |-> k.srv, cut |-> FALSE, ds |-> k.ds, tok |-> t, valid |-> TRUE]
    OBVIOUS
  <2>2. c \in Entries
    BY <2>1 DEF Urls, Entries
  <2>3. creds' = AddCred(creds, c)
    BY <1>4, <2>1 DEF AddUserPass
  <2> QED
    BY <1>1, <1>2, <2>2, <2>3, AddCredGrows
<1>5. ASSUME NEW lines \in KeyFiles, LoadFile(lines)
      PROVE  FALSE
  <2>1. lines \in Seq(Entries) /\ creds' = Load(creds, lines).creds
    BY <1>5, KeyFileAssumption DEF LoadFile
  <2> QED
    BY <1>1, <1>2, <2>1, LoadGrows
<1>6. ASSUME NEW t \in Tokens, PromptAnswer(t)
      PROVE  FALSE
  <2>1. creds' = Answered(creds, Asked, t)
    BY <1>6 DEF PromptAnswer
  <2> QED
    BY <1>1, <1>2, <2>1, AskedType, AnsweredFacts
<1>7. CASE AuthReq
  <2>1. auth # NoTok /\ i = GetCred(creds, Asked, FALSE)
    BY <1>1, <1>7, AuthReqFacts
  <2>2. pc = "respond"
    BY <1>7 DEF AuthReq
  <2>3. i # 0
    BY <1>1
  <2>4. authFor = url => AskedFor = Asked
    BY DEF AskedFor, Asked
  <2> QED
    BY <1>1, <2>1, <2>2, <2>3, <2>4 DEF SentFirst
<1>8. ~ (\E u : (\E m : Request(u, m)) \/ Redirect(u))
  BY <1>3 DEF Request, Redirect
<1>9. ~ (Cleanup \/ BodyDone \/ BodyBroke)
  BY <1>3 DEF Cleanup, BodyDone, BodyBroke, Return
<1>10. ~ (\/ ConnectFail \/ ConnectRefused \/ Connect \/ RespondError \/ RespondOk
          \/ PromptAgain \/ PromptRefuse \/ UNCHANGED vars)
  BY <1>3 DEF ConnectFail, ConnectRefused, Connect, RespondError, RespondOk,
     PromptAgain, PromptRefuse, vars
<1> QED
  BY <1>4, <1>5, <1>6, <1>7, <1>8, <1>9, <1>10 DEF Next, Step

-----------------------------------------------------------------------------
(* The results.                                                              *)

\* Every behaviour keeps the invariant.
THEOREM Invariance == Spec => []IInv
<1>1. IInv /\ [Next]_vars => IInv'
  BY TypesKept, MgrKept, NetKept, OrderKept, RefusalsKept, SentFirstKept, HeldKept DEF IInv
<1> QED
  BY InitInv, <1>1, PTL DEF Spec

\* Every variable keeps its type, and the table stays within its bound.
THEOREM TypeCorrect == Spec => []TypeOK
<1>1. IInv => TypeOK
  <2> SUFFICES ASSUME IInv PROVE TypeOK
    OBVIOUS
  <2>1. mgr \in BOOLEAN
    BY Zenon DEF IInv, MgrType
  <2> QED
    BY <2>1 DEF IInv, Types, Net, TypeOK
<1> QED
  BY Invariance, <1>1, PTL

\* Entries for one dataset are found before the entries for all of them.
THEOREM SpecificBeforeGeneral == Spec => []SpecificFirst
<1>1. IInv => SpecificFirst
  BY DEF IInv, Ordered, SpecificFirst
<1> QED
  BY Invariance, <1>1, PTL

\* What was saved is loaded again, neither more nor less.
THEOREM SavedIsLoaded == Spec => []SaveThenLoad
<1>1. IInv => SaveThenLoad
  <2> SUFFICES ASSUME IInv, \A i \in DOMAIN creds : ~creds[i].cut
               PROVE  /\ Load(creds, Saved(creds)) = [creds |-> creds, new |-> 0]
                      /\ \A u \in Urls :
                           Answer(Load(<<>>, Saved(creds)).creds, u) = Answer(creds, u)
    BY DEF SaveThenLoad
  <2>1. creds \in Seq(Entries)
    BY DEF IInv, Types
  <2>2. Distinct(creds)
    BY DEF IInv, Ordered, Distinct
  <2>3. Load(creds, Saved(creds)) = [creds |-> creds, new |-> 0]
    BY <2>1, <2>2, LoadOfSaved
  <2>4. PICK lines : lines = Saved(creds)
    OBVIOUS
  <2>5. lines \in Seq(Entries) /\ Distinct(lines)
    BY <2>1, <2>2, <2>4, SavedFromTable DEF FromTable
  <2>6. Load(<<>>, lines).creds = lines
    BY <2>5, LoadOfNothing
  <2> QED
    BY <2>1, <2>2, <2>3, <2>4, <2>6, SavedAnswersAlike
<1> QED
  BY Invariance, <1>1, PTL

\* Only a shadowed credential is sent again after the server refused it.
THEOREM RefusedNotResent == Spec => []ResendOnlyShadowed
<1>1. IInv => ResendOnlyShadowed
  BY DEF IInv, Refusals
<1> QED
  BY Invariance, <1>1, PTL

\* A request that has returned has nothing open, but for the three ways out that the
\* clean-up code does not see.
THEOREM AllClosed == Spec => []NothingLeftOpen
<1>1. IInv => NothingLeftOpen
  BY DEF IInv, Held, Spoilt, NothingLeftOpen
<1> QED
  BY Invariance, <1>1, PTL

\* An entry is withdrawn only because the server refused its own token, as long as no
\* redirect has carried the token to another url.
THEOREM RefusedWithdrawn == Spec => WithdrawsWhatWasSent
<1> DEFINE Right ==
      \A i \in DOMAIN creds :
        creds[i].valid /\ ~creds'[i].valid => creds[i].tok = auth \/ authFor # url
<1>1. IInv /\ [Next]_vars => [Right]_vars
  BY OnlyRefusedWithdrawn
<1> QED
  BY Invariance, <1>1, PTL DEF Spec, WithdrawsWhatWasSent
==============================================================================
