----------------------------- MODULE BlmProofs -----------------------------
(***************************************************************************)
(* Blm for any number of access points, any bound on the list and any      *)
(* times: its three invariants.                                            *)
(*                                                                         *)
(* Most operations only take from the list: entries go, or go from a list  *)
(* to the monitor list, which the firmware is not sent.  That is Weaker,   *)
(* and one lemma per helper shows it; adding and sending are then the only *)
(* steps with an argument of their own.                                    *)
(***************************************************************************)
EXTENDS Blm, QueueLemmas, SequenceTheorems, FiniteSetTheorems, TLAPS

\* The lists an entry may be on, and since when.
Types == {"MON", "D_AVOID", "U_AVOID", "RSSI", "D_BLACK", "U_BLACK"}
Times == UNION {[S -> Nat] : S \in SUBSET Types}

\* struct blm_reject_ap
Entry == [b : Bssids, at : Times, bad : Nat, connected : Nat, delay : Nat]

\* An access point has one entry.
OneEach(l) == \A i, j \in DOMAIN l : l[i].b = l[j].b => i = j

\* m is what is left of l: no entry is new and none is on more lists than it
\* was, save the monitor list.
Weaker(l, m) ==
  /\ m \in Seq(Entry) /\ Len(m) <= Len(l) /\ OneEach(m)
  /\ \A k \in DOMAIN m : \E i \in DOMAIN l : m[k].b = l[i].b /\ Lists(m[k]) \subseteq Lists(l[i]) \cup {"MON"}

\* Userspace's blacklist has the APs U only.
UserOK(l, U) == \A i \in DOMAIN l : "U_BLACK" \in Lists(l[i]) => l[i].b \in U

\* The firmware's table F has every AP of the list l that is rejected or
\* avoided, or is full of APs that are no less important.
Told(l, F) ==
  \A i \in DOMAIN l : \A t \in Lists(l[i]) \ {"MON"} :
    \/ <<l[i].b, t>> \in F
    \/ Cardinality(F) = MaxEntries /\ \A p \in F : Rank(Sendable, p[2]) <= Rank(Sendable, t)

\* Userspace's blacklist as the firmware knows it.
FwUser(F, U) == \A p \in F : p[2] = "U_BLACK" => p[1] \in U

\* Every variable holds values of its type.
BlmTypeOK ==
  /\ list \in Seq(Entry) /\ now \in Nat /\ suspended \in {"no", "yes", "resuming"}
  /\ lastSend \in {"ok", "failed"} /\ user \subseteq Bssids /\ todo \in Seq(Bssids \cup {"send"})

\* The inductive invariant.  What is still to do adds APs of the last list of
\* userspace, after the list was sent once; the firmware is behind while the
\* host is suspended, and from a send that failed to one that does not.
BlmInv ==
  /\ BlmTypeOK
  /\ OneEach(list) /\ Len(list) <= MaxEntries
  /\ UserOK(list, user)
  /\ \A i \in DOMAIN todo : todo[i] \in user \/ (i = 1 /\ todo[i] = "send")
  /\ suspended = "no" /\ lastSend = "ok" => Told(list, fw)
  /\ suspended = "no" /\ lastSend = "ok" /\ (todo = <<>> \/ Head(todo) # "send") => FwUser(fw, user)

-----------------------------------------------------------------------------
(* Entries. *)

\* Leaving lists...
LEMMA OffOK == ASSUME NEW e \in Entry, NEW S
               PROVE  Off(e, S) \in Entry /\ Lists(Off(e, S)) = Lists(e) \ S /\ Off(e, S).b = e.b
<1> DEFINE D == DOMAIN e.at \ S
           f == [t \in D |-> e.at[t]]
<1>1. PICK Q \in SUBSET Types : e.at \in [Q -> Nat]
  BY DEF Entry, Times
<1>2. D \in SUBSET Types /\ f \in [D -> Nat]
  BY <1>1
<1> HIDE DEF D
<1>3. f \in Times /\ DOMAIN f = D
  BY <1>2 DEF Times
<1>4. Off(e, S) = [e EXCEPT !.at = f]
  BY Zenon DEF Off, D
<1> HIDE DEF f
<1>5. [e EXCEPT !.at = f] \in Entry /\ [e EXCEPT !.at = f].at = f /\ [e EXCEPT !.at = f].b = e.b
  BY <1>3 DEF Entry
<1>6. QED
  BY <1>3, <1>4, <1>5 DEF Lists, D

\* ...and getting on one, now.
LEMMA OnOK == ASSUME NEW e \in Entry, NEW t \in Types, now \in Nat
              PROVE  On(e, t) \in Entry /\ Lists(On(e, t)) = Lists(e) \cup {t} /\ On(e, t).b = e.b
<1> DEFINE D == DOMAIN e.at \cup {t}
           f == [u \in D |-> IF u = t THEN now ELSE e.at[u]]
<1>1. PICK Q \in SUBSET Types : e.at \in [Q -> Nat]
  BY DEF Entry, Times
<1>2. D \in SUBSET Types /\ f \in [D -> Nat]
  BY <1>1
<1> HIDE DEF D
<1>3. f \in Times /\ DOMAIN f = D
  BY <1>2 DEF Times
<1>4. On(e, t) = [e EXCEPT !.at = f]
  BY Zenon DEF On, D
<1> HIDE DEF f
<1>5. [e EXCEPT !.at = f] \in Entry /\ [e EXCEPT !.at = f].at = f /\ [e EXCEPT !.at = f].b = e.b
  BY <1>3 DEF Entry
<1>6. QED
  BY <1>3, <1>4, <1>5 DEF Lists, D

\* blm_update_ap_info: an entry only ever moves to the monitor list.
LEMMA UpdateApInfoOK ==
  ASSUME NEW e \in Entry, NEW strong, now \in Nat
  PROVE  LET u == UpdateApInfo(e, strong)
         IN  u \in Entry /\ u.b = e.b /\ Lists(u) \subseteq Lists(e) \cup {"MON"}
<1> DEFINE over == Expired(e, strong)
           d == Off(e, over)
<1>1. d \in Entry /\ Lists(d) = Lists(e) \ over /\ d.b = e.b
  <2> HIDE DEF over
  <2>1. QED
    BY OffOK
<1>2. UpdateApInfo(e, strong) = IF over \subseteq {"RSSI"} THEN d ELSE On(d, "MON")
  BY DEF UpdateApInfo
<1> HIDE DEF d, over
<1>3. On(d, "MON") \in Entry /\ Lists(On(d, "MON")) = Lists(d) \cup {"MON"} /\ On(d, "MON").b = d.b
  BY <1>1, OnOK DEF Types
<1>4. QED
  BY <1>1, <1>2, <1>3

\* A new entry is on no list.
LEMMA NewEntryOK == ASSUME NEW b \in Bssids PROVE NewEntry(b) \in Entry /\ NewEntry(b).b = b /\ Lists(NewEntry(b)) = {}
<1> DEFINE f == [t \in {} |-> 0]
<1>1. f \in [{} -> Nat] /\ {} \in SUBSET Types /\ DOMAIN f = {}
  OBVIOUS
<1>2. f \in Times
  BY <1>1 DEF Times
<1>3. NewEntry(b) = [b |-> b, at |-> f, bad |-> 0, connected |-> 0, delay |-> 0]
  BY Zenon DEF NewEntry
<1> HIDE DEF f
<1>4. QED
  BY <1>1, <1>2, <1>3 DEF Entry, Lists

\* The reasons why an AP is rejected, and by userspace.
Reason(rej) == rej.type \in {"U_AVOID", "D_AVOID", "U_BLACK"} \/ (rej.type = "RSSI" /\ rej.delay \in Nat)

\* blm_handle_avoid_list
LEMMA HandleAvoidOK ==
  ASSUME NEW e \in Entry, NEW t \in {"U_AVOID", "D_AVOID"}, now \in Nat
  PROVE  LET u == HandleAvoid(e, t) IN u \in Entry /\ u.b = e.b /\ ("U_BLACK" \in Lists(u) => "U_BLACK" \in Lists(e))
<1> DEFINE bad == Min({e.bad + 1, Thresh})
           o == Off(e, {"MON"})
           hit == [o EXCEPT !.bad = bad]
           black == On(Off(hit, {t}), "D_BLACK")
           avoid == [On(hit, t) EXCEPT !.connected = now]
<1>1. bad \in Nat
  <2>1. e.bad + 1 \in Nat /\ Thresh \in Nat
    BY BlmAssumption DEF Entry
  <2>2. ASSUME NEW a \in Nat, NEW c \in Nat PROVE Min({a, c}) \in Nat
    BY DEF Min
  <2>3. QED
    BY <2>1, <2>2
<1>2. HandleAvoid(e, t) = IF bad >= Thresh THEN black ELSE avoid
  BY Zenon DEF HandleAvoid
<1> HIDE DEF bad
<1>3. o \in Entry /\ Lists(o) = Lists(e) \ {"MON"} /\ o.b = e.b
  BY OffOK
<1> HIDE DEF o
<1>4. hit \in Entry /\ hit.at = o.at /\ hit.b = e.b
  BY <1>1, <1>3 DEF Entry
<1>5. Lists(hit) = Lists(e) \ {"MON"}
  BY <1>3, <1>4 DEF Lists
<1> HIDE DEF hit
<1>6. black \in Entry /\ Lists(black) = (Lists(hit) \ {t}) \cup {"D_BLACK"} /\ black.b = e.b
  <2>1. Off(hit, {t}) \in Entry /\ Lists(Off(hit, {t})) = Lists(hit) \ {t} /\ Off(hit, {t}).b = hit.b
    BY <1>4, OffOK
  <2> DEFINE d == Off(hit, {t})
  <2> HIDE DEF d
  <2>2. d \in Entry => On(d, "D_BLACK") \in Entry /\ Lists(On(d, "D_BLACK")) = Lists(d) \cup {"D_BLACK"} /\ On(d, "D_BLACK").b = d.b
    BY OnOK DEF Types
  <2>3. QED
    BY <1>4, <2>1, <2>2 DEF d
<1>7. avoid \in Entry /\ Lists(avoid) = Lists(hit) \cup {t} /\ avoid.b = e.b
  <2> DEFINE d == On(hit, t)
  <2>1. d \in Entry /\ Lists(d) = Lists(hit) \cup {t} /\ d.b = hit.b
    BY <1>4, OnOK DEF Types
  <2> HIDE DEF d
  <2>2. [d EXCEPT !.connected = now] \in Entry /\ [d EXCEPT !.connected = now].at = d.at /\ [d EXCEPT !.connected = now].b = d.b
    BY <2>1 DEF Entry
  <2>3. QED
    BY <1>4, <2>1, <2>2 DEF Lists, d
<1> HIDE DEF black, avoid
<1>8. QED
  BY <1>2, <1>5, <1>6, <1>7

\* blm_modify_entry: only userspace's own blacklist grows by userspace's hand.
LEMMA ModifyOK ==
  ASSUME NEW e \in Entry, NEW rej, Reason(rej), now \in Nat
  PROVE  LET u == Modify(e, rej)
         IN  u \in Entry /\ u.b = e.b /\ ("U_BLACK" \in Lists(u) => "U_BLACK" \in Lists(e) \/ rej.type = "U_BLACK")
<1>1. CASE rej.type \in {"U_AVOID", "D_AVOID"}
  <2>1. Modify(e, rej) = HandleAvoid(e, rej.type)
    BY <1>1 DEF Modify
  <2> DEFINE t == rej.type
             u == HandleAvoid(e, t)
  <2>2. u \in Entry /\ u.b = e.b /\ ("U_BLACK" \in Lists(u) => "U_BLACK" \in Lists(e))
    <3>1. t \in {"U_AVOID", "D_AVOID"}
      BY <1>1
    <3> HIDE DEF t
    <3>2. QED
      BY <3>1, HandleAvoidOK
  <2> HIDE DEF u
  <2>3. QED
    BY <2>1, <2>2 DEF u
<1>2. CASE rej.type = "U_BLACK"
  <2>1. Modify(e, rej) = On(e, "U_BLACK")
    BY <1>2 DEF Modify
  <2>2. QED
    BY <1>2, <2>1, OnOK DEF Types
<1>3. CASE rej.type = "RSSI" /\ rej.delay \in Nat
  <2> DEFINE d == On(e, "RSSI")
             delay == rej.delay
  <2>1. Modify(e, rej) = [d EXCEPT !.delay = delay]
    BY <1>3 DEF Modify
  <2>2. d \in Entry /\ Lists(d) = Lists(e) \cup {"RSSI"} /\ d.b = e.b
    BY OnOK DEF Types
  <2>3. delay \in Nat
    BY <1>3
  <2> HIDE DEF d, delay
  <2>4. [d EXCEPT !.delay = delay] \in Entry /\ [d EXCEPT !.delay = delay].at = d.at /\ [d EXCEPT !.delay = delay].b = d.b
    BY <2>2, <2>3 DEF Entry
  <2>5. QED
    BY <2>1, <2>2, <2>4 DEF Lists
<1>4. QED
  BY <1>1, <1>2, <1>3 DEF Reason

-----------------------------------------------------------------------------
(* Lists of entries. *)

\* The whole list is left of itself, and what is left of what is left.
LEMMA WeakerSame == ASSUME NEW l \in Seq(Entry), OneEach(l) PROVE Weaker(l, l)
BY DEF Weaker

\* Two calls, one after the other.
LEMMA WeakerThen ==
  ASSUME NEW l, NEW m, NEW n, Weaker(l, m), Weaker(m, n), Len(l) \in Nat
  PROVE  Weaker(l, n)
<1>1. n \in Seq(Entry) /\ m \in Seq(Entry) /\ OneEach(n) /\ Len(n) <= Len(m) /\ Len(m) <= Len(l)
  BY DEF Weaker
<1>2. Len(n) \in Nat /\ Len(m) \in Nat
  BY <1>1
<1>3. Len(n) <= Len(l)
  BY <1>1, <1>2
<1>4. ASSUME NEW k \in DOMAIN n
      PROVE  \E i \in DOMAIN l : n[k].b = l[i].b /\ Lists(n[k]) \subseteq Lists(l[i]) \cup {"MON"}
  <2>1. PICK j \in DOMAIN m : n[k].b = m[j].b /\ Lists(n[k]) \subseteq Lists(m[j]) \cup {"MON"}
    BY DEF Weaker
  <2>2. PICK i \in DOMAIN l : m[j].b = l[i].b /\ Lists(m[j]) \subseteq Lists(l[i]) \cup {"MON"}
    BY DEF Weaker
  <2>3. n[k].b = l[i].b /\ Lists(n[k]) \subseteq Lists(l[i]) \cup {"MON"}
    BY <2>1, <2>2
  <2>4. QED
    BY <2>3
<1>5. QED
  BY <1>1, <1>3, <1>4 DEF Weaker

\* What holds of a list holds of what is left of it.
LEMMA WeakerKeeps ==
  ASSUME NEW l, NEW m, Weaker(l, m), NEW U, NEW F
  PROVE  (UserOK(l, U) => UserOK(m, U)) /\ (Told(l, F) => Told(m, F))
<1>1. UserOK(l, U) => UserOK(m, U)
  BY DEF Weaker, UserOK
<1>2. ASSUME Told(l, F), NEW k \in DOMAIN m, NEW t \in Lists(m[k]) \ {"MON"}
      PROVE  \/ <<m[k].b, t>> \in F
             \/ Cardinality(F) = MaxEntries /\ \A p \in F : Rank(Sendable, p[2]) <= Rank(Sendable, t)
  <2>1. PICK i \in DOMAIN l : m[k].b = l[i].b /\ Lists(m[k]) \subseteq Lists(l[i]) \cup {"MON"}
    BY DEF Weaker
  <2>2. t \in Lists(l[i]) \ {"MON"}
    BY <2>1
  <2>3. QED
    BY <1>2, <2>1, <2>2 DEF Told
<1>3. QED
  BY <1>1, <1>2 DEF Told

\* One entry changes.
LEMMA ReplaceOK ==
  ASSUME NEW l \in Seq(Entry), NEW i \in DOMAIN l, NEW e \in Entry
  PROVE  LET m == [l EXCEPT ![i] = e]
         IN  /\ m \in Seq(Entry) /\ Len(m) = Len(l) /\ DOMAIN m = DOMAIN l
             /\ m[i] = e /\ \A k \in DOMAIN l : k # i => m[k] = l[k]
OBVIOUS

\* It does not change to more than it was.
LEMMA WeakerReplace ==
  ASSUME NEW l \in Seq(Entry), OneEach(l), NEW i \in DOMAIN l, NEW e \in Entry, e.b = l[i].b,
         Lists(e) \subseteq Lists(l[i]) \cup {"MON"}
  PROVE  Weaker(l, [l EXCEPT ![i] = e])
<1> DEFINE m == [l EXCEPT ![i] = e]
<1>1. m \in Seq(Entry) /\ Len(m) = Len(l) /\ Len(l) \in Nat /\ DOMAIN m = DOMAIN l
  OBVIOUS
<1>2. m[i] = e /\ \A k \in DOMAIN l : k # i => m[k] = l[k]
  OBVIOUS
<1> HIDE DEF m
<1>3. \A k \in DOMAIN l : m[k].b = l[k].b /\ Lists(m[k]) \subseteq Lists(l[k]) \cup {"MON"}
  BY <1>2
<1>4. OneEach(m)
  BY <1>1, <1>3 DEF OneEach
<1>5. QED
  BY <1>1, <1>3, <1>4 DEF Weaker, m

\* The parts of a list.
LEMMA Parts ==
  ASSUME NEW T, NEW q \in Seq(T), NEW m \in Nat, NEW n \in Nat, m >= 1, n <= Len(q)
  PROVE  LET s == SubSeq(q, m, n)
         IN  /\ s \in Seq(T) /\ Len(s) = (IF m <= n THEN n - m + 1 ELSE 0)
             /\ \A k \in DOMAIN s : m + k - 1 \in DOMAIN q /\ m + k - 1 \in m .. n /\ s[k] = q[m + k - 1]
<1> DEFINE s == SubSeq(q, m, n)
           len == Len(q)
<1>1. len \in Nat /\ DOMAIN q = 1 .. len /\ n <= len /\ \A i \in 1 .. len : q[i] \in T
  OBVIOUS
<1> HIDE DEF len
<1>2. m \in Int /\ n \in Int /\ \A i \in m .. n : q[i] \in T
  BY <1>1
<1>3. /\ s \in Seq(T) /\ Len(s) = (IF m <= n THEN n - m + 1 ELSE 0)
      /\ \A i \in 1 .. n - m + 1 : s[i] = q[m + i - 1]
  BY <1>2, SubSeqProperties
<1>4. DOMAIN s = 1 .. Len(s)
  BY <1>3
<1> HIDE DEF s
<1>5. \A k \in DOMAIN s : k \in 1 .. n - m + 1 /\ m + k - 1 \in m .. n /\ m + k - 1 \in 1 .. len
  BY <1>1, <1>3, <1>4
<1>6. QED
  BY <1>1, <1>3, <1>5 DEF s

\* An entry goes (qdf_list_remove_node), or the start of the list, up to n, is
\* replaced by what is left of it and the rest is kept.
LEMMA WeakerSplit ==
  ASSUME NEW l \in Seq(Entry), OneEach(l), NEW n \in Nat, NEW j \in Nat, n <= Len(l), n < j,
         NEW h, Weaker(SubSeq(l, 1, n), h)
  PROVE  Weaker(l, h \o SubSeq(l, j, Len(l)))
<1> DEFINE len == Len(l)
           a == SubSeq(l, 1, n)
           z == SubSeq(l, j, len)
           m == h \o z
<1>1. len \in Nat /\ DOMAIN l = 1 .. len /\ n <= len
  OBVIOUS
<1>2. /\ a \in Seq(Entry) /\ Len(a) = n
      /\ \A k \in DOMAIN a : k \in DOMAIN l /\ k \in 1 .. n /\ a[k] = l[k]
  <2>1. /\ a \in Seq(Entry) /\ Len(a) = (IF 1 <= n THEN n - 1 + 1 ELSE 0)
        /\ \A k \in DOMAIN a : 1 + k - 1 \in DOMAIN l /\ 1 + k - 1 \in 1 .. n /\ a[k] = l[1 + k - 1]
    BY <1>1, Parts
  <2>2. DOMAIN a = 1 .. Len(a) /\ Len(a) \in Nat
    BY <2>1
  <2> HIDE DEF a
  <2>3. \A k \in DOMAIN a : 1 + k - 1 = k
    BY <2>2
  <2>4. QED
    BY <2>1, <2>3
<1>3. /\ z \in Seq(Entry) /\ Len(z) = (IF j <= len THEN len - j + 1 ELSE 0)
      /\ \A k \in DOMAIN z : j + k - 1 \in DOMAIN l /\ j + k - 1 \in j .. len /\ z[k] = l[j + k - 1]
  BY <1>1, Parts
<1> HIDE DEF len, a, z
<1>4. h \in Seq(Entry) /\ Len(h) <= n /\ OneEach(h)
  BY <1>2 DEF Weaker, a
<1> DEFINE c == Len(h)
           d == Len(z)
<1>5. c \in Nat /\ DOMAIN h = 1 .. c /\ d \in Nat /\ DOMAIN z = 1 .. d
  BY <1>3, <1>4
<1>6. /\ m \in Seq(Entry) /\ Len(m) = c + d /\ DOMAIN m = 1 .. c + d
      /\ (\A k \in 1 .. c : m[k] = h[k]) /\ \A k \in 1 .. d : m[c + k] = z[k]
  <2>1. /\ m \in Seq(Entry) /\ Len(m) = c + d
        /\ \A i \in 1 .. c + d : m[i] = IF i <= c THEN h[i] ELSE z[i - c]
    BY <1>3, <1>4, ConcatProperties
  <2>2. DOMAIN m = 1 .. Len(m)
    BY <2>1
  <2> HIDE DEF m, c, d
  <2>3. \A k \in 1 .. c : m[k] = h[k]
    BY <1>5, <2>1
  <2>4. \A k \in 1 .. d : m[c + k] = z[k]
    <3>1. \A k \in 1 .. d : c + k \in 1 .. c + d /\ ~ (c + k <= c) /\ (c + k) - c = k
      BY <1>5
    <3>2. QED
      BY <2>1, <3>1
  <2>5. QED
    BY <2>1, <2>2, <2>3, <2>4
<1>7. Len(m) <= Len(l)
  BY <1>1, <1>3, <1>4, <1>5, <1>6 DEF len, c, d
<1> HIDE DEF m, c, d
\* Where an entry of m is from, and on which side.
<1> DEFINE From(k, i) == /\ i \in DOMAIN l /\ m[k].b = l[i].b /\ Lists(m[k]) \subseteq Lists(l[i]) \cup {"MON"}
                         /\ k \in 1 .. c <=> i <= n
<1>8. ASSUME NEW k \in 1 .. c PROVE \E i : From(k, i)
  <2>1. PICK i \in DOMAIN a : h[k].b = a[i].b /\ Lists(h[k]) \subseteq Lists(a[i]) \cup {"MON"}
    BY <1>5 DEF Weaker, a
  <2>2. i \in DOMAIN l /\ i <= n /\ a[i] = l[i] /\ m[k] = h[k]
    BY <1>2, <1>6
  <2>3. From(k, i)
    BY <2>1, <2>2
  <2>4. QED
    BY <2>3
<1>9. ASSUME NEW k \in 1 .. d PROVE From(c + k, j + k - 1)
  <2>1. j + k - 1 \in DOMAIN l /\ j + k - 1 \in j .. len /\ m[c + k] = l[j + k - 1]
    BY <1>3, <1>5, <1>6
  <2>2. ~ (j + k - 1 <= n) /\ c + k \notin 1 .. c
    BY <1>5, <2>1
  <2>3. QED
    BY <2>1, <2>2
<1>10. \A k \in DOMAIN m : k \in 1 .. c \/ (k - c \in 1 .. d /\ k = c + (k - c))
  BY <1>5, <1>6
<1>11. ASSUME NEW k \in DOMAIN m PROVE \E i : From(k, i)
  <2> HIDE DEF From
  <2>1. CASE k \in 1 .. c
    BY <1>8, <2>1
  <2>2. CASE k - c \in 1 .. d /\ k = c + (k - c)
    <3>1. From(c + (k - c), j + (k - c) - 1)
      BY <1>9, <2>2
    <3>2. QED
      BY <2>2, <3>1
  <2>3. QED
    BY <1>10, <2>1, <2>2
<1>12. ASSUME NEW k \in DOMAIN m, NEW g \in DOMAIN m, m[k].b = m[g].b PROVE k = g
  <2>1. PICK i : From(k, i)
    BY <1>11
  <2>2. PICK o : From(g, o)
    BY <1>11
  <2>3. i = o
    BY <1>12, <2>1, <2>2 DEF OneEach
  <2>4. CASE k \in 1 .. c
    <3>1. g \in 1 .. c
      BY <2>1, <2>2, <2>3, <2>4
    <3>2. h[k].b = h[g].b
      BY <1>6, <1>12, <2>4, <3>1
    <3>3. QED
      BY <1>4, <1>5, <2>4, <3>1, <3>2 DEF OneEach
  <2>5. CASE k \notin 1 .. c
    <3>1. g \notin 1 .. c
      BY <2>1, <2>2, <2>3, <2>5
    <3> DEFINE x == k - c
               y == g - c
    <3>2. x \in 1 .. d /\ k = c + x /\ y \in 1 .. d /\ g = c + y
      BY <1>10, <2>5, <3>1
    <3> HIDE DEF x, y
    <3>3. From(c + x, j + x - 1) /\ From(c + y, j + y - 1)
      BY <1>9, <3>2
    <3>4. j + x - 1 = j + y - 1
      BY <1>12, <3>2, <3>3 DEF OneEach
    <3>5. QED
      BY <1>5, <3>2, <3>4
  <2>6. QED
    BY <2>4, <2>5
<1>13. \A k \in DOMAIN m : \E i \in DOMAIN l : m[k].b = l[i].b /\ Lists(m[k]) \subseteq Lists(l[i]) \cup {"MON"}
  BY <1>11
<1>14. OneEach(m)
  BY <1>12 DEF OneEach
<1>15. QED
  BY <1>6, <1>7, <1>13, <1>14 DEF Weaker, m, z, len

\* The places of a list before and behind one entry make the list without it.
LEMMA WeakerRemove ==
  ASSUME NEW l \in Seq(Entry), OneEach(l), NEW i \in DOMAIN l
  PROVE  Weaker(l, RemoveAt(l, i))
<1> DEFINE n == i - 1
           j == i + 1
           h == SubSeq(l, 1, n)
<1>1. n \in Nat /\ j \in Nat /\ n <= Len(l) /\ n < j
  OBVIOUS
<1>2. RemoveAt(l, i) = h \o SubSeq(l, j, Len(l))
  BY DEF RemoveAt
<1> HIDE DEF n, j
<1>3. Weaker(h, h)
  <2>1. /\ h \in Seq(Entry) /\ Len(h) = (IF 1 <= n THEN n - 1 + 1 ELSE 0)
        /\ \A k \in DOMAIN h : 1 + k - 1 \in DOMAIN l /\ 1 + k - 1 \in 1 .. n /\ h[k] = l[1 + k - 1]
    BY <1>1, Parts
  <2>2. DOMAIN h = 1 .. Len(h) /\ Len(h) \in Nat
    BY <2>1
  <2> HIDE DEF h
  <2>3. \A k \in DOMAIN h : 1 + k - 1 = k /\ k \in Nat
    BY <2>2
  <2>4. OneEach(h)
    BY <2>1, <2>3 DEF OneEach
  <2>5. QED
    BY <2>1, <2>4, WeakerSame
<1>4. Weaker(l, h \o SubSeq(l, j, Len(l)))
  BY <1>1, <1>3, WeakerSplit DEF h
<1>5. QED
  BY <1>2, <1>4

\* What a walk leaves that drops the entries not in K...
LEMMA SelectWeaker == ASSUME NEW l \in Seq(Entry), OneEach(l), NEW K PROVE Weaker(l, Select(l, K))
<1> DEFINE m == Select(l, K)
<1>1. m \in Seq(Entry) /\ Len(m) <= Len(l)
  BY SelectSeqOf
<1>2. \A k \in DOMAIN m : \E i \in DOMAIN l : l[i] = m[k]
  BY SelectElements
<1>3. \A i, j \in DOMAIN l : l[i] = l[j] => i = j
  BY DEF OneEach
<1>4. \A i, j \in DOMAIN m : m[i] = m[j] => i = j
  BY <1>3, SelectInjective
<1> HIDE DEF m
<1>5. ASSUME NEW k \in DOMAIN m, NEW g \in DOMAIN m, m[k].b = m[g].b PROVE k = g
  <2>1. PICK i \in DOMAIN l : l[i] = m[k]
    BY <1>2
  <2>2. PICK j \in DOMAIN l : l[j] = m[g]
    BY <1>2
  <2>3. i = j
    BY <1>5, <2>1, <2>2 DEF OneEach
  <2>4. QED
    BY <1>4, <2>1, <2>2, <2>3
<1>6. \A k \in DOMAIN m : \E i \in DOMAIN l : m[k].b = l[i].b /\ Lists(m[k]) \subseteq Lists(l[i]) \cup {"MON"}
  BY <1>2
<1>7. OneEach(m)
  BY <1>5 DEF OneEach
<1>8. QED
  BY <1>1, <1>6, <1>7 DEF Weaker, m

\* ...and one that changes each, not to more than it was.
LEMMA MapWeaker ==
  ASSUME NEW r \in Seq(Entry), OneEach(r), NEW m, m = [i \in DOMAIN r |-> m[i]],
         \A i \in DOMAIN r : m[i] \in Entry /\ m[i].b = r[i].b /\ Lists(m[i]) \subseteq Lists(r[i]) \cup {"MON"}
  PROVE  Weaker(r, m)
<1>1. DOMAIN r = 1 .. Len(r) /\ Len(r) \in Nat
  OBVIOUS
<1>2. m \in Seq(Entry) /\ Len(m) = Len(r) /\ DOMAIN m = DOMAIN r
  BY <1>1
<1>3. OneEach(m)
  BY <1>2 DEF OneEach
<1>4. \A k \in DOMAIN m : m[k].b = r[k].b /\ Lists(m[k]) \subseteq Lists(r[k]) \cup {"MON"}
  BY <1>2
<1>5. QED
  BY <1>1, <1>2, <1>3, <1>4 DEF Weaker

\* The walk that adding and sending begin with.
LEMMA PrunedWeaker ==
  ASSUME NEW l \in Seq(Entry), OneEach(l), now \in Nat
  PROVE  Weaker(l, Pruned(l))
<1> DEFINE K == {e \in Range1(l) : Lists(UpdateApInfo(e, FALSE)) # {}}
           r == Select(l, K)
           m == [i \in DOMAIN r |-> UpdateApInfo(r[i], FALSE)]
           no == FALSE
<1>1. Pruned(l) = m
  BY Zenon DEF Pruned
<1>2. Weaker(l, r)
  <2> HIDE DEF K
  <2>1. QED
    BY SelectWeaker
<1> HIDE DEF r
<1>3. r \in Seq(Entry) /\ OneEach(r) /\ \A i \in DOMAIN r : r[i] \in Entry
  BY <1>2 DEF Weaker
<1>4. ASSUME NEW i \in DOMAIN r
      PROVE  m[i] \in Entry /\ m[i].b = r[i].b /\ Lists(m[i]) \subseteq Lists(r[i]) \cup {"MON"}
  <2>1. m[i] = UpdateApInfo(r[i], no)
    OBVIOUS
  <2> DEFINE e == r[i]
  <2>2. e \in Entry
    BY <1>3
  <2> HIDE DEF m, e, no
  <2>3. LET d == UpdateApInfo(e, no) IN d \in Entry /\ d.b = e.b /\ Lists(d) \subseteq Lists(e) \cup {"MON"}
    BY <2>2, UpdateApInfoOK
  <2>4. QED
    BY <2>1, <2>3 DEF e
<1>5. DOMAIN m = DOMAIN r
  OBVIOUS
<1> HIDE DEF m
<1>6. m = [i \in DOMAIN r |-> m[i]]
  BY DEF m
<1>7. Weaker(r, m)
  BY <1>3, <1>4, <1>6, MapWeaker
<1>8. Len(l) \in Nat
  OBVIOUS
<1>9. QED
  BY <1>1, <1>2, <1>7, <1>8, WeakerThen

\* blm_clear_userspace_blacklist_info leaves nobody on userspace's blacklist.
LEMMA ClearUserWeaker ==
  ASSUME NEW l \in Seq(Entry), OneEach(l)
  PROVE  Weaker(l, ClearUser(l)) /\ UserOK(ClearUser(l), {})
<1> DEFINE K == {e \in Range1(l) : Lists(e) # {"U_BLACK"}}
           r == Select(l, K)
           m == [i \in DOMAIN r |-> Off(r[i], {"U_BLACK"})]
<1>1. ClearUser(l) = m
  BY Zenon DEF ClearUser
<1>2. Weaker(l, r)
  <2> HIDE DEF K
  <2>1. QED
    BY SelectWeaker
<1> HIDE DEF r
<1>3. r \in Seq(Entry) /\ OneEach(r) /\ \A i \in DOMAIN r : r[i] \in Entry
  BY <1>2 DEF Weaker
<1>4. \A i \in DOMAIN r : m[i] \in Entry /\ m[i].b = r[i].b /\ Lists(m[i]) = Lists(r[i]) \ {"U_BLACK"}
  BY <1>3, OffOK
<1>5. DOMAIN m = DOMAIN r
  OBVIOUS
<1> HIDE DEF m
<1>6. m = [i \in DOMAIN r |-> m[i]]
  BY DEF m
<1>7. Weaker(r, m)
  <2>1. \A i \in DOMAIN r : m[i] \in Entry /\ m[i].b = r[i].b /\ Lists(m[i]) \subseteq Lists(r[i]) \cup {"MON"}
    BY <1>4
  <2>2. QED
    BY <1>3, <1>6, <2>1, MapWeaker
<1>8. Len(l) \in Nat
  OBVIOUS
<1>9. Weaker(l, m)
  BY <1>2, <1>7, <1>8, WeakerThen
<1>10. UserOK(m, {})
  BY <1>4, <1>5 DEF UserOK
<1>11. QED
  BY <1>1, <1>9, <1>10

\* The smaller of two numbers.
LEMMA MinOfTwo ==
  ASSUME NEW a \in Nat, NEW c \in Nat
  PROVE  LET d == Min({a, c}) IN d \in Nat /\ d <= a /\ d <= c /\ (d = a \/ d = c)
BY DEF Min

\* The place of an AP's entry, or the one behind the end.
LEMMA IndexIs ==
  ASSUME NEW l, Len(l) \in Nat, DOMAIN l = 1 .. Len(l), NEW b
  PROVE  LET i == IndexOf(l, b)
         IN  /\ i \in 1 .. Len(l) + 1
             /\ i <= Len(l) => i \in DOMAIN l /\ l[i].b = b
             /\ i = Len(l) + 1 => \A k \in DOMAIN l : l[k].b # b
<1> DEFINE n == Len(l)
           S == {i \in DOMAIN l : l[i].b = b} \cup {n + 1}
           i == IndexOf(l, b)
<1>1. n \in Nat /\ S # {} /\ S \subseteq Nat
  OBVIOUS
<1>2. \E k \in S : \A g \in S : k <= g
  <2> HIDE DEF S
  <2>1. QED
    BY <1>1, LeastNumber
<1>3. i = CHOOSE k \in S : \A g \in S : k <= g
  BY DEF IndexOf, Min
<1>4. i \in S /\ \A g \in S : i <= g
  <2> HIDE DEF S, i
  <2>1. QED
    BY <1>2, <1>3
<1> HIDE DEF i
<1>5. i \in 1 .. n + 1 /\ (i <= n => i \in DOMAIN l /\ l[i].b = b)
  BY <1>1, <1>4
<1>6. ASSUME i = n + 1, NEW k \in DOMAIN l PROVE l[k].b # b
  BY <1>1, <1>4, <1>6
<1>7. QED
  BY <1>5, <1>6 DEF i

-----------------------------------------------------------------------------
(* Making room. *)

\* The scan of blm_try_delete_bssid_in_list, and one of its steps.
Found(l, t, i, r) == IF Lists(l[i]) = {t} /\ IsOldest(t, Delta(l[i], t), r.delta)
                     THEN [at |-> i, delta |-> Delta(l[i], t)]
                     ELSE r
IsScan(l, t, n, f) == f = [i \in 0 .. n |-> IF i = 0 THEN [at |-> 0, delta |-> 0] ELSE Found(l, t, i, f[i - 1])]

\* Its recursion.
LEMMA ScanAt == ASSUME NEW l, NEW t, NEW n \in Nat, NEW f, IsScan(l, t, n, f), NEW i \in 1 .. n
                PROVE  f[i] = Found(l, t, i, f[i - 1])
<1> DEFINE e(j) == IF j = 0 THEN [at |-> 0, delta |-> 0] ELSE Found(l, t, j, f[j - 1])
<1>1. f = [j \in 0 .. n |-> e(j)]
  BY DEF IsScan
<1>2. i \in 0 .. n /\ i # 0
  OBVIOUS
<1> HIDE DEF e
<1>3. f[i] = e(i)
  BY <1>1, <1>2
<1>4. QED
  BY <1>2, <1>3 DEF e

\* There is such a function.
LEMMA ScanExists == ASSUME NEW l, NEW t, NEW n \in Nat PROVE \E f : IsScan(l, t, n, f)
<1> DEFINE s == [at |-> 0, delta |-> 0]
           N == {k \in Nat : \E f : IsScan(l, t, k, f)}
<1>1. 0 \in N
  <2>1. IsScan(l, t, 0, [i \in 0 .. 0 |-> s])
    BY DEF IsScan
  <2>2. QED
    BY <2>1
<1>2. ASSUME NEW k \in Nat, k \in N PROVE k + 1 \in N
  <2>1. PICK f : IsScan(l, t, k, f)
    BY <1>2
  <2> DEFINE x == Found(l, t, k + 1, f[k])
             g == [i \in 0 .. k + 1 |-> IF i = k + 1 THEN x ELSE f[i]]
             e(j) == IF j = 0 THEN s ELSE Found(l, t, j, g[j - 1])
  <2>2. ASSUME NEW i \in 0 .. k + 1 PROVE g[i] = e(i)
    <3>1. CASE i = 0
      <4>1. g[0] = f[0] /\ f[0] = s
        BY <2>1 DEF IsScan
      <4>2. QED
        BY <3>1, <4>1
    <3>2. CASE i \in 1 .. k
      <4>1. g[i] = f[i] /\ g[i - 1] = f[i - 1]
        BY <3>2
      <4>2. f[i] = Found(l, t, i, f[i - 1])
        BY <2>1, <3>2, ScanAt
      <4>3. i # 0
        BY <3>2
      <4>4. QED
        BY <4>1, <4>2, <4>3
    <3>3. CASE i = k + 1
      <4>1. g[i] = x /\ g[i - 1] = f[k] /\ i # 0
        BY <3>3
      <4>2. QED
        BY <3>3, <4>1
    <3>4. QED
      BY <3>1, <3>2, <3>3
  <2>3. g = [i \in 0 .. k + 1 |-> e(i)]
    <3> HIDE DEF e, x
    <3>1. QED
      BY <2>2
  <2>4. IsScan(l, t, k + 1, g)
    BY <2>3, Zenon DEF IsScan
  <2>5. QED
    BY <2>4
<1> HIDE DEF N
<1>3. \A n_1 \in Nat : n_1 \in N
  BY <1>1, <1>2, InductionOnSet
<1>4. QED
  BY <1>3 DEF N

\* The scan finds a place in the list, or nothing.
LEMMA VictimOK == ASSUME NEW l, Len(l) \in Nat, NEW t PROVE Victim(l, t) \in 0 .. Len(l)
<1> DEFINE n == Len(l)
           f == CHOOSE f : IsScan(l, t, n, f)
           N == {k \in Nat : f[k].at \in 0 .. n}
<1>1. Victim(l, t) = f[n].at
  BY Zenon DEF Victim, IsScan, Found
<1>2. n \in Nat
  OBVIOUS
<1> HIDE DEF n
<1>3. IsScan(l, t, n, f)
  BY <1>2, ScanExists
<1> HIDE DEF f
<1>4. f[0].at = 0 /\ \A i \in 1 .. n : f[i] = Found(l, t, i, f[i - 1])
  <2>1. f[0].at = 0
    BY <1>2, <1>3 DEF IsScan
  <2>2. \A i \in 1 .. n : f[i] = Found(l, t, i, f[i - 1])
    BY <1>2, <1>3, ScanAt
  <2>3. QED
    BY <2>1, <2>2
<1>5. 0 \in N
  BY <1>2, <1>4
<1>6. ASSUME NEW k \in 0 .. n - 1, k \in N PROVE k + 1 \in N
  <2>1. k \in Nat /\ k + 1 \in 1 .. n /\ k + 1 - 1 = k
    BY <1>2
  <2>2. f[k + 1] = Found(l, t, k + 1, f[k])
    BY <1>4, <2>1
  <2>3. f[k + 1] = f[k] \/ f[k + 1] = [at |-> k + 1, delta |-> Delta(l[k + 1], t)]
    BY <2>2, Zenon DEF Found
  <2> DEFINE x == Delta(l[k + 1], t)
  <2> HIDE DEF x
  <2>4. f[k + 1].at \in 0 .. n
    BY <1>2, <1>6, <2>1, <2>3 DEF x
  <2>5. QED
    BY <2>1, <2>4
<1> HIDE DEF N
<1>7. \A k \in 0 .. n : k \in N
  BY <1>2, <1>5, <1>6, InductionUpTo
<1>8. n \in N
  BY <1>2, <1>7
<1>9. QED
  BY <1>1, <1>8 DEF N, n

\* blm_remove_lowest_delta_entry
LEMMA MakeRoomWeaker == ASSUME NEW l \in Seq(Entry), OneEach(l) PROVE Weaker(l, MakeRoom(l))
<1> DEFINE S == {t \in Range1(Evictable) : Victim(l, t) # 0}
           found == Select(Evictable, S)
           i == Victim(l, Head(found))
<1>1. MakeRoom(l) = IF found = <<>> THEN l ELSE RemoveAt(l, i)
  BY DEF MakeRoom
<1>2. CASE found = <<>>
  BY <1>1, <1>2, WeakerSame
<1>3. CASE found # <<>>
  <2>1. Evictable \in Seq(Types)
    BY DEF Evictable, Types
  <2>2. Head(found) \in S
    <3> HIDE DEF S
    <3>1. \E k \in DOMAIN Evictable : Head(found) = Evictable[k] /\ Evictable[k] \in S
      BY <1>3, <2>1, SelectHead
    <3>2. QED
      BY <3>1
  <2>3. i \in 0 .. Len(l) /\ i # 0
    <3>1. Len(l) \in Nat
      OBVIOUS
    <3>2. QED
      BY <2>2, <3>1, VictimOK
  <2> HIDE DEF i
  <2>4. i \in DOMAIN l
    BY <2>3
  <2>5. QED
    BY <1>1, <1>3, <2>4, WeakerRemove
<1>4. QED
  BY <1>2, <1>3

-----------------------------------------------------------------------------
(* What is sent to the firmware. *)

\* blm_fill_reject_list for one list.
Row(l, t) == Select([i \in DOMAIN l |-> <<l[i].b, t>>], {<<e.b, t>> : e \in {d \in Range1(l) : t \in Lists(d)}})

\* q has the APs of the first n of the lists that are sent, each once and in
\* the order of the lists.
Filled(l, q, n) ==
  /\ q \in Seq(Bssids \X Types) /\ \A i, j \in DOMAIN q : q[i] = q[j] => i = j
  /\ \A i \in DOMAIN q : Rank(Sendable, q[i][2]) \in 1 .. n
  /\ \A i, j \in DOMAIN q : i <= j => Rank(Sendable, q[i][2]) <= Rank(Sendable, q[j][2])
  /\ \A i \in DOMAIN q : \E e \in DOMAIN l : q[i][1] = l[e].b /\ q[i][2] \in Lists(l[e])
  /\ \A e \in DOMAIN l : \A t \in Lists(l[e]) \ {"MON"} :
       Rank(Sendable, t) <= n => \E i \in DOMAIN q : q[i] = <<l[e].b, t>>

\* The place of a list among those that are sent.
LEMMA RankIs == /\ \A k \in 1 .. 5 : Sendable[k] \in Types \ {"MON"} /\ Rank(Sendable, Sendable[k]) = k
                /\ \A t \in Types \ {"MON"} : \E k \in 1 .. 5 : t = Sendable[k]
<1>1. DOMAIN Sendable = 1 .. 5 /\ \A i, j \in 1 .. 5 : Sendable[i] = Sendable[j] => i = j
  BY DEF Sendable
<1>2. ASSUME NEW k \in 1 .. 5 PROVE Rank(Sendable, Sendable[k]) = k
  <2> DEFINE q == Sendable
             t == q[k]
  <2>1. DOMAIN q = 1 .. 5 /\ t = q[k] /\ \A i, j \in 1 .. 5 : q[i] = q[j] => i = j
    BY <1>1
  <2> HIDE DEF q, t
  <2>2. \A j \in DOMAIN q : q[j] = t => j = k
    BY <2>1
  <2>3. (CHOOSE j \in DOMAIN q : q[j] = t) = k
    BY <2>1, <2>2
  <2>4. QED
    BY <2>3 DEF Rank, q, t
<1>3. \A k \in 1 .. 5 : Sendable[k] \in Types \ {"MON"}
  BY DEF Sendable, Types
<1>4. \A t \in Types \ {"MON"} : \E k \in 1 .. 5 : t = Sendable[k]
  <2>1. /\ "U_BLACK" = Sendable[1] /\ "D_BLACK" = Sendable[2] /\ "RSSI" = Sendable[3]
        /\ "U_AVOID" = Sendable[4] /\ "D_AVOID" = Sendable[5]
    BY DEF Sendable
  <2> HIDE DEF Sendable
  <2>2. QED
    BY <2>1 DEF Types
<1>5. QED
  BY <1>2, <1>3, <1>4

\* One list more.
LEMMA FillRow ==
  ASSUME NEW l \in Seq(Entry), OneEach(l), NEW k \in 1 .. 5, NEW q, Filled(l, q, k - 1)
  PROVE  Filled(l, q \o Row(l, Sendable[k]), k)
<1> DEFINE t == Sendable[k]
           u == [i \in DOMAIN l |-> <<l[i].b, t>>]
           S == {<<e.b, t>> : e \in {d \in Range1(l) : t \in Lists(d)}}
           r == Select(u, S)
           m == q \o r
<1>1. Row(l, t) = r
  BY DEF Row
<1>2. t \in Types \ {"MON"} /\ Rank(Sendable, t) = k /\ k \in Nat
  BY RankIs
<1>3. ASSUME NEW s \in Types \ {"MON"}, Rank(Sendable, s) = k PROVE s = t
  <2>1. PICK g \in 1 .. 5 : s = Sendable[g]
    BY RankIs
  <2>2. g = k
    BY <1>3, <2>1, RankIs
  <2>3. QED
    BY <2>1, <2>2
<1> HIDE DEF t
<1>4. DOMAIN l = 1 .. Len(l) /\ Len(l) \in Nat /\ \A i \in DOMAIN l : l[i] \in Entry /\ l[i].b \in Bssids
  <2>1. DOMAIN l = 1 .. Len(l) /\ Len(l) \in Nat /\ \A i \in DOMAIN l : l[i] \in Entry
    OBVIOUS
  <2>2. \A e \in Entry : e.b \in Bssids
    BY DEF Entry
  <2>3. QED
    BY <2>1, <2>2
<1>5. u \in Seq(Bssids \X Types) /\ DOMAIN u = DOMAIN l
  BY <1>2, <1>4
<1>6. \A i, j \in DOMAIN u : u[i] = u[j] => i = j
  BY DEF OneEach
<1>7. \A i \in DOMAIN l : t \in Lists(l[i]) => u[i] \in S
  BY DEF Range1
<1>8. \A x \in S : \E e \in DOMAIN l : x[1] = l[e].b /\ x[2] = t /\ t \in Lists(l[e])
  BY DEF Range1
<1>9. \A i \in DOMAIN l : u[i] = <<l[i].b, t>>
  OBVIOUS
<1> HIDE DEF u, S
<1>10. r \in Seq(Bssids \X Types)
  BY <1>5, SelectSeqOf
<1>11. \A i, j \in DOMAIN r : r[i] = r[j] => i = j
  BY <1>5, <1>6, SelectInjective
<1>12. \A i \in DOMAIN r : r[i] \in S
  BY <1>5, SelectElements
<1>13. \A i \in DOMAIN u : u[i] \in S => \E g \in DOMAIN r : r[g] = u[i]
  BY <1>5, SelectElements
<1> HIDE DEF r
<1> DEFINE c == Len(q)
           d == Len(r)
<1>14. q \in Seq(Bssids \X Types)
  BY DEF Filled
<1>15. c \in Nat /\ DOMAIN q = 1 .. c /\ d \in Nat /\ DOMAIN r = 1 .. d
  BY <1>10, <1>14
<1>16. /\ m \in Seq(Bssids \X Types) /\ DOMAIN m = 1 .. c + d
       /\ (\A i \in 1 .. c : m[i] = q[i]) /\ \A i \in 1 .. d : m[c + i] = r[i]
  <2> DEFINE P == Bssids \X Types
  <2> HIDE DEF P
  <2>1. /\ m \in Seq(P) /\ Len(m) = c + d
        /\ \A i \in 1 .. c + d : m[i] = IF i <= c THEN q[i] ELSE r[i - c]
    BY <1>10, <1>14, ConcatProperties DEF P
  <2>2. DOMAIN m = 1 .. Len(m)
    BY <2>1
  <2> HIDE DEF m, c, d
  <2>3. \A i \in 1 .. c : m[i] = q[i]
    BY <1>15, <2>1
  <2>4. \A i \in 1 .. d : m[c + i] = r[i]
    <3>1. \A i \in 1 .. d : c + i \in 1 .. c + d /\ ~ (c + i <= c) /\ (c + i) - c = i
      BY <1>15
    <3>2. QED
      BY <2>1, <3>1
  <2>5. QED
    BY <2>1, <2>2, <2>3, <2>4 DEF P
<1> HIDE DEF m, c, d
<1>17. \A i \in DOMAIN m : i \in 1 .. c \/ (i - c \in 1 .. d /\ i = c + (i - c))
  BY <1>15, <1>16
<1>18. \A i \in DOMAIN m : i \in 1 .. c => m[i] = q[i] /\ Rank(Sendable, m[i][2]) \in 1 .. k - 1
  BY <1>15, <1>16 DEF Filled
<1>19. ASSUME NEW i \in DOMAIN m, i \notin 1 .. c
       PROVE  /\ i - c \in 1 .. d /\ m[i] = r[i - c] /\ m[i][2] = t /\ c < i
              /\ \E e \in DOMAIN l : m[i][1] = l[e].b /\ m[i][2] \in Lists(l[e])
  <2> DEFINE g == i - c
  <2>1. g \in 1 .. d /\ i = c + g
    BY <1>17, <1>19
  <2> HIDE DEF g
  <2>2. m[i] = r[g] /\ c < i
    BY <1>15, <1>16, <2>1
  <2>3. r[g] \in S
    BY <1>12, <1>15, <2>1
  <2>4. QED
    BY <1>8, <2>1, <2>2, <2>3 DEF g
<1>20. \A i \in DOMAIN m : i \notin 1 .. c => Rank(Sendable, m[i][2]) = k
  BY <1>2, <1>19
<1>21. ASSUME NEW i \in DOMAIN m, NEW j \in DOMAIN m, m[i] = m[j] PROVE i = j
  <2>1. CASE i \in 1 .. c /\ j \in 1 .. c
    BY <1>15, <1>18, <1>21, <2>1 DEF Filled
  <2>2. CASE i \notin 1 .. c /\ j \notin 1 .. c
    <3>1. r[i - c] = r[j - c] /\ i - c \in 1 .. d /\ j - c \in 1 .. d
      BY <1>19, <1>21, <2>2
    <3>2. i - c = j - c
      BY <1>11, <1>15, <3>1
    <3>3. i \in Nat /\ j \in Nat
      BY <1>15, <1>16
    <3>4. QED
      BY <1>15, <3>2, <3>3
  <2>3. CASE (i \in 1 .. c) # (j \in 1 .. c)
    <3>1. k \notin 1 .. k - 1
      BY <1>2
    <3>2. QED
      BY <1>18, <1>20, <1>21, <2>3, <3>1
  <2>4. QED
    BY <2>1, <2>2, <2>3
<1>22. \A i \in DOMAIN m : Rank(Sendable, m[i][2]) \in 1 .. k
  BY <1>2, <1>18, <1>20
<1>23. ASSUME NEW i \in DOMAIN m, NEW j \in DOMAIN m, i <= j
       PROVE  Rank(Sendable, m[i][2]) <= Rank(Sendable, m[j][2])
  <2>1. CASE j \in 1 .. c
    <3>1. i \in 1 .. c
      BY <1>15, <1>16, <1>23, <2>1
    <3>2. QED
      BY <1>15, <1>18, <1>23, <2>1, <3>1 DEF Filled
  <2>2. CASE j \notin 1 .. c
    BY <1>2, <1>20, <1>22, <2>2
  <2>3. QED
    BY <2>1, <2>2
<1>24. ASSUME NEW i \in DOMAIN m PROVE \E e \in DOMAIN l : m[i][1] = l[e].b /\ m[i][2] \in Lists(l[e])
  <2>1. CASE i \in 1 .. c
    BY <1>15, <1>18, <2>1 DEF Filled
  <2>2. QED
    BY <1>19, <2>1
<1>25. ASSUME NEW e \in DOMAIN l, NEW s \in Lists(l[e]) \ {"MON"}, Rank(Sendable, s) <= k
       PROVE  \E i \in DOMAIN m : m[i] = <<l[e].b, s>>
  <2>1. s \in Types \ {"MON"}
    BY <1>4 DEF Entry, Times, Lists
  <2>2. Rank(Sendable, s) \in 1 .. 5
    BY <2>1, RankIs
  <2>3. CASE Rank(Sendable, s) <= k - 1
    <3>1. PICK i \in DOMAIN q : q[i] = <<l[e].b, s>>
      BY <2>3 DEF Filled
    <3>2. i \in DOMAIN m /\ m[i] = q[i]
      BY <1>15, <1>16, <3>1
    <3>3. QED
      BY <3>1, <3>2
  <2>4. CASE Rank(Sendable, s) = k
    <3>1. s = t
      BY <1>3, <2>1, <2>4
    <3>2. PICK g \in DOMAIN r : r[g] = u[e]
      BY <1>5, <1>7, <1>13, <3>1
    <3>3. c + g \in DOMAIN m /\ m[c + g] = r[g]
      BY <1>15, <1>16, <3>2
    <3>4. QED
      BY <1>9, <3>1, <3>2, <3>3
  <2>5. QED
    BY <1>2, <1>25, <2>2, <2>3, <2>4
<1>26. Filled(l, m, k)
  <2>1. \A i, j \in DOMAIN m : m[i] = m[j] => i = j
    BY <1>21
  <2>2. \A i, j \in DOMAIN m : i <= j => Rank(Sendable, m[i][2]) <= Rank(Sendable, m[j][2])
    BY <1>23
  <2>3. QED
    BY <1>16, <1>22, <1>24, <1>25, <2>1, <2>2 DEF Filled
<1>27. QED
  BY <1>1, <1>26 DEF m, t

\* blm_fill_reject_list for every list.
LEMMA AllFilled == ASSUME NEW l \in Seq(Entry), OneEach(l)
                   PROVE  \E q : Filled(l, q, 5) /\ FillAll(l) = Range1(SubSeq(q, 1, Min({Len(q), MaxEntries})))
<1> DEFINE on(k) == Row(l, Sendable[k])
           q1 == <<>> \o on(1)
           q2 == q1 \o on(2)
           q3 == q2 \o on(3)
           q4 == q3 \o on(4)
           q5 == q4 \o on(5)
<1>1. Filled(l, <<>>, 0)
  <2>1. ASSUME NEW e \in DOMAIN l, NEW t \in Lists(l[e]) \ {"MON"} PROVE ~ (Rank(Sendable, t) <= 0)
    <3>1. t \in Types \ {"MON"}
      <4>1. l[e] \in Entry
        OBVIOUS
      <4>2. QED
        BY <4>1 DEF Entry, Times, Lists
    <3>2. Rank(Sendable, t) \in 1 .. 5
      BY <3>1, RankIs
    <3>3. QED
      BY <3>2
  <2>2. QED
    BY <2>1 DEF Filled
<1>2. ASSUME NEW k \in 1 .. 5, NEW n, n = k - 1, NEW q, Filled(l, q, n) PROVE Filled(l, q \o on(k), k)
  BY <1>2, FillRow
<1> HIDE DEF on
<1>3. Filled(l, q1, 1)
  <2>1. 1 \in 1 .. 5 /\ 0 = 1 - 1
    OBVIOUS
  <2>2. QED
    BY <1>1, <1>2, <2>1
<1>4. Filled(l, q2, 2)
  <2> HIDE DEF q1
  <2>1. 2 \in 1 .. 5 /\ 1 = 2 - 1
    OBVIOUS
  <2>2. QED
    BY <1>2, <1>3, <2>1
<1>5. Filled(l, q3, 3)
  <2> HIDE DEF q2
  <2>1. 3 \in 1 .. 5 /\ 2 = 3 - 1
    OBVIOUS
  <2>2. QED
    BY <1>2, <1>4, <2>1
<1>6. Filled(l, q4, 4)
  <2> HIDE DEF q3
  <2>1. 4 \in 1 .. 5 /\ 3 = 4 - 1
    OBVIOUS
  <2>2. QED
    BY <1>2, <1>5, <2>1
<1>7. Filled(l, q5, 5)
  <2> HIDE DEF q4
  <2>1. 5 \in 1 .. 5 /\ 4 = 5 - 1
    OBVIOUS
  <2>2. QED
    BY <1>2, <1>6, <2>1
<1> DEFINE all == on(1) \o on(2) \o on(3) \o on(4) \o on(5)
<1>8. FillAll(l) = Range1(SubSeq(all, 1, Min({Len(all), MaxEntries})))
  BY Zenon DEF FillAll, Row, on
<1>9. q1 = on(1)
  <2>1. on(1) \in Seq(Bssids \X Types)
    <3>1. PICK q : q = on(1) /\ \A k \in DOMAIN l : l[k] \in Entry
      OBVIOUS
    <3>2. Sendable[1] \in Types
      BY RankIs
    <3> DEFINE t == Sendable[1]
               u == [i \in DOMAIN l |-> <<l[i].b, t>>]
    <3> HIDE DEF t
    <3>3. u \in Seq(Bssids \X Types)
      BY <3>1, <3>2 DEF Entry, t
    <3>4. QED
      BY <3>3, SelectSeqOf DEF Row, on, t
  <2>2. QED
    BY <2>1
<1>10. all = q5
  BY <1>9
<1> HIDE DEF all, q5
<1>11. QED
  BY <1>7, <1>8, <1>10

\* What the firmware is sent of a list tells it what is on the list, and
\* nothing else.
LEMMA FillAllOK ==
  ASSUME NEW l \in Seq(Entry), OneEach(l), NEW U, UserOK(l, U)
  PROVE  Told(l, FillAll(l)) /\ FwUser(FillAll(l), U)
<1> DEFINE F == FillAll(l)
<1>1. PICK q : Filled(l, q, 5) /\ F = Range1(SubSeq(q, 1, Min({Len(q), MaxEntries})))
  BY AllFilled
<1> DEFINE n == Len(q)
           c == Min({n, MaxEntries})
           s == SubSeq(q, 1, c)
<1>2. /\ q \in Seq(Bssids \X Types) /\ \A i, j \in DOMAIN q : q[i] = q[j] => i = j
      /\ \A i, j \in DOMAIN q : i <= j => Rank(Sendable, q[i][2]) <= Rank(Sendable, q[j][2])
  BY <1>1 DEF Filled
<1>3. n \in Nat /\ DOMAIN q = 1 .. n
  BY <1>2
<1> HIDE DEF n
<1>4. c \in Nat /\ c <= n /\ (c = n \/ c = MaxEntries)
  <2>1. MaxEntries \in Nat
    BY BlmAssumption
  <2>2. QED
    BY <1>3, <2>1, MinOfTwo
<1> HIDE DEF c
<1>5. DOMAIN s = 1 .. c /\ \A k \in 1 .. c : s[k] = q[k]
  <2>1. /\ s \in Seq(Bssids \X Types) /\ Len(s) = (IF 1 <= c THEN c - 1 + 1 ELSE 0)
        /\ \A k \in DOMAIN s : 1 + k - 1 \in DOMAIN q /\ 1 + k - 1 \in 1 .. c /\ s[k] = q[1 + k - 1]
    <3> DEFINE P == Bssids \X Types
    <3> HIDE DEF P
    <3>1. QED
      BY <1>2, <1>4, Parts DEF n, P
  <2>2. DOMAIN s = 1 .. Len(s) /\ Len(s) \in Nat
    BY <2>1
  <2> HIDE DEF s
  <2>3. Len(s) = c
    BY <1>4, <2>1
  <2>4. \A k \in 1 .. c : 1 + k - 1 = k
    OBVIOUS
  <2>5. QED
    BY <2>1, <2>2, <2>3, <2>4
<1>6. F = {q[k] : k \in 1 .. c}
  BY <1>1, <1>5 DEF Range1, c, n
<1> HIDE DEF F, s
<1>7. Cardinality(F) = c
  <2> DEFINE f == [k \in 1 .. c |-> q[k]]
  <2>1. \A i, j \in 1 .. c : q[i] = q[j] => i = j
    <3> HIDE DEF f
    <3>1. \A i \in 1 .. c : i \in DOMAIN q
      BY <1>3, <1>4
    <3>2. QED
      BY <1>2, <3>1
  <2>2. f \in Bijection(1 .. c, F)
    BY <1>6, <2>1 DEF Bijection, Injection, Surjection, IsInjective
  <2> HIDE DEF f
  <2>3. ExistsBijection(1 .. c, F)
    BY <2>2 DEF ExistsBijection
  <2>4. QED
    BY <1>4, <2>3, FS_CountingElements
<1>8. ASSUME NEW i \in DOMAIN l, NEW t \in Lists(l[i]) \ {"MON"}, <<l[i].b, t>> \notin F
      PROVE  Cardinality(F) = MaxEntries /\ \A p \in F : Rank(Sendable, p[2]) <= Rank(Sendable, t)
  <2>1. Rank(Sendable, t) <= 5
    <3>1. l[i] \in Entry
      OBVIOUS
    <3>2. t \in Types \ {"MON"}
      BY <3>1 DEF Entry, Times, Lists
    <3>3. Rank(Sendable, t) \in 1 .. 5
      BY <3>2, RankIs
    <3>4. QED
      BY <3>3
  <2>2. PICK g \in DOMAIN q : q[g] = <<l[i].b, t>>
    BY <1>1, <2>1 DEF Filled
  <2>3. g \notin 1 .. c
    BY <1>6, <1>8, <2>2
  <2>4. c = MaxEntries /\ c < g
    BY <1>3, <1>4, <2>3
  <2>5. q[g][2] = t
    BY <2>2
  <2>6. ASSUME NEW k \in 1 .. c PROVE Rank(Sendable, q[k][2]) <= Rank(Sendable, t)
    <3>1. k \in DOMAIN q /\ k <= g
      BY <1>3, <1>4, <2>4
    <3>2. QED
      BY <1>2, <2>5, <3>1
  <2>7. QED
    BY <1>6, <1>7, <2>4, <2>6
<1>9. ASSUME NEW p \in F, p[2] = "U_BLACK" PROVE p[1] \in U
  <2>1. PICK k \in 1 .. c : p = q[k]
    BY <1>6
  <2>2. k \in DOMAIN q
    BY <1>3, <1>4
  <2>3. PICK e \in DOMAIN l : q[k][1] = l[e].b /\ q[k][2] \in Lists(l[e])
    BY <1>1, <2>2 DEF Filled
  <2>4. QED
    BY <1>9, <2>1, <2>3 DEF UserOK
<1>10. QED
  BY <1>8, <1>9 DEF Told, FwUser, F

\* blm_send_reject_ap_list_to_fw
LEMMA SendToFwOK ==
  ASSUME NEW l \in Seq(Entry), OneEach(l), now \in Nat, SendToFw(l)
  PROVE  /\ Weaker(l, list')
         /\ lastSend' \in {lastSend, "ok", "failed"}
         /\ suspended # "yes" /\ lastSend' = "ok" => Told(list', fw') /\ \A U : UserOK(l, U) => FwUser(fw', U)
<1>1. CASE suspended = "yes"
  <2>1. list' = l /\ fw' = fw /\ lastSend' = lastSend
    BY <1>1 DEF SendToFw
  <2>2. QED
    BY <1>1, <2>1, WeakerSame
<1>2. CASE suspended # "yes" /\ lastSend' = "failed"
  <2>1. list' = l \/ list' = Pruned(l)
    BY <1>2 DEF SendToFw
  <2>2. Weaker(l, l) /\ Weaker(l, Pruned(l))
    BY WeakerSame, PrunedWeaker
  <2>3. QED
    BY <1>2, <2>1, <2>2
<1>3. CASE suspended # "yes" /\ lastSend' # "failed"
  <2> DEFINE m == Pruned(l)
  <2>1. list' = m /\ fw' = FillAll(m) /\ lastSend' = "ok"
    BY <1>3 DEF SendToFw
  <2>2. Weaker(l, m)
    BY PrunedWeaker
  <2> HIDE DEF m
  <2>3. m \in Seq(Entry) /\ OneEach(m)
    BY <2>2 DEF Weaker
  <2>4. ASSUME NEW U, UserOK(m, U) PROVE Told(m, FillAll(m)) /\ FwUser(FillAll(m), U)
    BY <2>3, <2>4, FillAllOK
  <2>5. UserOK(m, Bssids)
    <3>1. \A i \in DOMAIN m : m[i] \in Entry
      BY <2>3
    <3>2. QED
      BY <3>1 DEF UserOK, Entry
  <2>6. \A U : UserOK(l, U) => UserOK(m, U)
    <3>1. ASSUME NEW U, UserOK(l, U) PROVE UserOK(m, U)
      <4> DEFINE F == {}
      <4>1. (UserOK(l, U) => UserOK(m, U)) /\ (Told(l, F) => Told(m, F))
        BY <2>2, WeakerKeeps
      <4>2. QED
        BY <3>1, <4>1
    <3>2. QED
      BY <3>1
  <2>7. QED
    BY <1>3, <2>1, <2>2, <2>4, <2>5, <2>6
<1>4. QED
  BY <1>1, <1>2, <1>3

-----------------------------------------------------------------------------
(* Adding. *)

\* A list that the invariant allows, when userspace's blacklist is U.
Good(l, U) == l \in Seq(Entry) /\ OneEach(l) /\ Len(l) <= MaxEntries /\ UserOK(l, U)

\* What sending leaves behind, and what adding does: it sends, or takes from
\* the list.
Sent(U) == /\ Good(list', U) /\ lastSend' \in {lastSend, "ok", "failed"}
           /\ suspended # "yes" /\ lastSend' = "ok" => Told(list', fw') /\ FwUser(fw', U)
Added(U) == \/ Sent(U)
            \/ Good(list', U) /\ lastSend' = lastSend /\ fw' = fw /\ (Told(list, fw) => Told(list', fw))

\* What is left of a good list is good.
LEMMA GoodWeaker == ASSUME NEW l, NEW m, NEW U, Good(l, U), Weaker(l, m) PROVE Good(m, U)
<1>1. m \in Seq(Entry) /\ OneEach(m) /\ Len(m) <= Len(l) /\ l \in Seq(Entry) /\ Len(l) <= MaxEntries
  BY DEF Weaker, Good
<1>2. Len(m) <= MaxEntries
  <2>1. Len(m) \in Nat /\ Len(l) \in Nat /\ MaxEntries \in Nat
    BY <1>1, BlmAssumption
  <2>2. QED
    BY <1>1, <2>1
<1>3. UserOK(m, U)
  <2> DEFINE F == {}
  <2>1. (UserOK(l, U) => UserOK(m, U)) /\ (Told(l, F) => Told(m, F))
    BY WeakerKeeps
  <2>2. QED
    BY <2>1 DEF Good
<1>4. QED
  BY <1>1, <1>2, <1>3 DEF Good

\* A good list is sent.
LEMMA SendOK == ASSUME NEW l, NEW U, Good(l, U), now \in Nat, SendToFw(l) PROVE Sent(U)
<1>1. l \in Seq(Entry) /\ OneEach(l) /\ UserOK(l, U)
  BY DEF Good
<1>2. /\ Weaker(l, list') /\ lastSend' \in {lastSend, "ok", "failed"}
      /\ suspended # "yes" /\ lastSend' = "ok" => Told(list', fw') /\ \A V : UserOK(l, V) => FwUser(fw', V)
  BY <1>1, SendToFwOK
<1>3. Good(list', U)
  BY <1>2, GoodWeaker
<1>4. QED
  BY <1>1, <1>2, <1>3 DEF Sent

\* The start of a list.
LEMMA StartOK ==
  ASSUME NEW l \in Seq(Entry), OneEach(l), NEW n \in Nat, n <= Len(l)
  PROVE  SubSeq(l, 1, n) \in Seq(Entry) /\ OneEach(SubSeq(l, 1, n))
<1> DEFINE h == SubSeq(l, 1, n)
<1>1. /\ h \in Seq(Entry) /\ Len(h) = (IF 1 <= n THEN n - 1 + 1 ELSE 0)
      /\ \A k \in DOMAIN h : 1 + k - 1 \in DOMAIN l /\ 1 + k - 1 \in 1 .. n /\ h[k] = l[1 + k - 1]
  BY Parts
<1>2. DOMAIN h = 1 .. Len(h) /\ Len(h) \in Nat
  BY <1>1
<1> HIDE DEF h
<1>3. \A k \in DOMAIN h : 1 + k - 1 = k /\ k \in Nat
  BY <1>2
<1>4. OneEach(h)
  BY <1>1, <1>3 DEF OneEach
<1>5. QED
  BY <1>1, <1>4 DEF h

\* blm_add_bssid_to_reject_list.  The part of the list that was walked is what
\* is left of it; room is made before the entry is put behind the others.
LEMMA AddOK ==
  ASSUME NEW b \in Bssids, NEW rej, Reason(rej), NEW U, rej.type = "U_BLACK" => b \in U,
         Good(list, U), now \in Nat, Add(b, rej)
  PROVE  Added(U)
<1> DEFINE i == IndexOf(list, b)
           n == Min({i, Len(list)})
           head == Pruned(SubSeq(list, 1, n))
           l == head \o SubSeq(list, i + 1, Len(list))
           j == IndexOf(l, b)
           room == IF Len(l) = MaxEntries THEN MakeRoom(l) ELSE l
           changed == [l EXCEPT ![j] = Modify(l[j], rej)]
           longer == Append(room, Modify(NewEntry(b), rej))
<1>1. IF j <= Len(l) THEN SendToFw(changed)
      ELSE \/ list' = room /\ fw' = fw /\ lastSend' = lastSend
           \/ Len(room) # MaxEntries /\ SendToFw(longer)
  BY DEF Add
<1>2. list \in Seq(Entry) /\ OneEach(list) /\ Len(list) \in Nat /\ DOMAIN list = 1 .. Len(list)
  BY DEF Good
<1>3. Weaker(list, l)
  <2>1. i \in Nat
    <3>1. i \in 1 .. Len(list) + 1
      BY <1>2, IndexIs
    <3> HIDE DEF i
    <3>2. QED
      BY <1>2, <3>1
  <2> HIDE DEF i
  <2>2. n \in Nat /\ n <= i /\ n <= Len(list)
    BY <1>2, <2>1, MinOfTwo
  <2> HIDE DEF n
  <2>3. SubSeq(list, 1, n) \in Seq(Entry) /\ OneEach(SubSeq(list, 1, n))
    BY <1>2, <2>2, StartOK
  <2>4. Weaker(SubSeq(list, 1, n), head)
    BY <2>3, PrunedWeaker
  <2> DEFINE g == i + 1
  <2>5. g \in Nat /\ n < g
    BY <2>1, <2>2
  <2> HIDE DEF g, head
  <2>6. Weaker(list, head \o SubSeq(list, g, Len(list)))
    BY <1>2, <2>2, <2>4, <2>5, WeakerSplit
  <2>7. QED
    BY <2>6 DEF g
<1> HIDE DEF l
<1>4. Good(l, U)
  BY <1>3, GoodWeaker
<1>5. l \in Seq(Entry) /\ OneEach(l) /\ Len(l) \in Nat /\ DOMAIN l = 1 .. Len(l) /\ Len(l) <= MaxEntries /\ UserOK(l, U)
  BY <1>4 DEF Good
<1>6. /\ j \in 1 .. Len(l) + 1 /\ (j <= Len(l) => j \in DOMAIN l /\ l[j].b = b)
      /\ j = Len(l) + 1 => \A k \in DOMAIN l : l[k].b # b
  BY <1>5, IndexIs
<1> HIDE DEF j
<1>7. ASSUME Sent(U) PROVE Added(U)
  BY <1>7 DEF Added
<1>8. CASE j <= Len(l)
  <2> DEFINE e == l[j]
             m == Modify(e, rej)
  <2>1. j \in DOMAIN l /\ e \in Entry /\ e.b = b
    BY <1>5, <1>6, <1>8
  <2>2. m \in Entry /\ m.b = b /\ ("U_BLACK" \in Lists(m) => "U_BLACK" \in Lists(e) \/ b \in U)
    <3> HIDE DEF e
    <3>1. m \in Entry /\ m.b = e.b /\ ("U_BLACK" \in Lists(m) => "U_BLACK" \in Lists(e) \/ rej.type = "U_BLACK")
      BY <2>1, ModifyOK
    <3>2. QED
      BY <2>1, <3>1
  <2> HIDE DEF m
  <2>3. changed = [l EXCEPT ![j] = m]
    BY Zenon DEF m
  <2> HIDE DEF changed
  <2>4. /\ changed \in Seq(Entry) /\ Len(changed) = Len(l) /\ DOMAIN changed = DOMAIN l
        /\ changed[j] = m /\ \A k \in DOMAIN l : k # j => changed[k] = l[k]
    <3>1. l \in Seq(Entry) /\ j \in DOMAIN l /\ m \in Entry
      BY <1>5, <2>1, <2>2
    <3>2. QED
      BY <2>3, <3>1, ReplaceOK
  <2>5. l[j].b = b /\ m.b = b
    BY <2>1, <2>2
  <2>6. \A k \in DOMAIN l : changed[k].b = l[k].b
    BY <2>4, <2>5
  <2>7. OneEach(changed)
    BY <1>5, <2>4, <2>6 DEF OneEach
  <2>8. UserOK(changed, U)
    BY <1>5, <2>1, <2>2, <2>4 DEF UserOK
  <2>9. Good(changed, U)
    BY <1>5, <2>4, <2>7, <2>8 DEF Good
  <2>10. SendToFw(changed)
    BY <1>1, <1>8
  <2>11. Sent(U)
    BY <2>9, <2>10, SendOK
  <2>12. QED
    BY <1>7, <2>11
<1>9. Weaker(l, room)
  <2>1. Weaker(l, MakeRoom(l))
    BY <1>5, MakeRoomWeaker
  <2>2. Weaker(l, l)
    BY <1>5, WeakerSame
  <2>3. QED
    BY <2>1, <2>2
<1> HIDE DEF room
<1>10. Good(room, U)
  BY <1>4, <1>9, GoodWeaker
<1>11. CASE ~ (j <= Len(l)) /\ list' = room /\ fw' = fw /\ lastSend' = lastSend
  <2>1. list' = room /\ fw' = fw /\ lastSend' = lastSend
    BY <1>11
  <2>2. Weaker(list, room)
    BY <1>2, <1>3, <1>9, WeakerThen
  <2>3. Told(list, fw) => Told(room, fw)
    <3>1. (UserOK(list, U) => UserOK(room, U)) /\ (Told(list, fw) => Told(room, fw))
      BY <2>2, WeakerKeeps
    <3>2. QED
      BY <3>1
  <2>4. QED
    BY <1>10, <2>1, <2>3 DEF Added
<1>12. CASE ~ (j <= Len(l)) /\ Len(room) # MaxEntries /\ SendToFw(longer)
  <2> DEFINE m == Modify(NewEntry(b), rej)
             c == Len(room)
  <2>1. m \in Entry /\ m.b = b /\ ("U_BLACK" \in Lists(m) => b \in U)
    <3> DEFINE e == NewEntry(b)
    <3>1. e \in Entry /\ e.b = b /\ Lists(e) = {}
      BY NewEntryOK
    <3> HIDE DEF e
    <3>2. m \in Entry /\ m.b = e.b /\ ("U_BLACK" \in Lists(m) => "U_BLACK" \in Lists(e) \/ rej.type = "U_BLACK")
      BY <3>1, ModifyOK DEF e
    <3>3. QED
      BY <3>1, <3>2
  <2> HIDE DEF m
  <2>2. \A k \in DOMAIN room : room[k].b # b
    <3>1. j = Len(l) + 1
      BY <1>5, <1>6, <1>12
    <3>2. \A k \in DOMAIN l : l[k].b # b
      BY <1>6, <3>1
    <3>3. QED
      BY <1>9, <3>2 DEF Weaker
  <2>3. room \in Seq(Entry) /\ OneEach(room) /\ UserOK(room, U) /\ c <= MaxEntries /\ c \in Nat /\ DOMAIN room = 1 .. c
    BY <1>10 DEF Good
  <2>4. /\ longer \in Seq(Entry) /\ Len(longer) = c + 1 /\ DOMAIN longer = 1 .. c + 1
        /\ longer[c + 1] = m /\ \A k \in 1 .. c : longer[k] = room[k]
    BY <2>1, <2>3 DEF m
  <2> HIDE DEF longer, c
  <2>5. Len(longer) <= MaxEntries
    <3>1. MaxEntries \in Nat
      BY BlmAssumption
    <3>2. c # MaxEntries
      BY <1>12 DEF c
    <3>3. c \in Nat /\ c <= MaxEntries /\ Len(longer) = c + 1
      BY <2>3, <2>4
    <3>4. QED
      BY <3>1, <3>2, <3>3
  <2>6. \A k \in 1 .. c + 1 : k \in 1 .. c \/ k = c + 1
    BY <2>3
  <2>7. OneEach(longer)
    <3>1. ASSUME NEW k \in 1 .. c + 1, NEW g \in 1 .. c + 1, longer[k].b = longer[g].b PROVE k = g
      <4>1. CASE k \in 1 .. c /\ g \in 1 .. c
        <5>1. room[k].b = room[g].b
          BY <2>4, <3>1, <4>1
        <5>2. QED
          BY <2>3, <4>1, <5>1 DEF OneEach
      <4>2. CASE k = c + 1 \/ g = c + 1
        <5>1. \A o \in 1 .. c : longer[o].b # b
          BY <2>2, <2>3, <2>4
        <5>2. longer[c + 1].b = b
          BY <2>1, <2>4
        <5>3. QED
          BY <2>6, <3>1, <4>2, <5>1, <5>2
      <4>3. QED
        BY <2>6, <4>1, <4>2
    <3>2. QED
      BY <2>4, <3>1 DEF OneEach
  <2>8. UserOK(longer, U)
    BY <2>1, <2>3, <2>4, <2>6 DEF UserOK
  <2>9. Good(longer, U)
    BY <2>4, <2>5, <2>7, <2>8 DEF Good
  <2>10. SendToFw(longer)
    BY <1>12 DEF longer
  <2>11. Sent(U)
    BY <2>9, <2>10, SendOK
  <2>12. QED
    BY <1>7, <2>11
<1>13. QED
  BY <1>1, <1>8, <1>11, <1>12

-----------------------------------------------------------------------------
(* The operations. *)

\* What the invariant says of the list and of what the firmware was sent.
LEMMA InvParts ==
  ASSUME BlmInv
  PROVE  /\ Good(list, user) /\ now \in Nat /\ user \subseteq Bssids /\ suspended \in {"no", "yes", "resuming"}
         /\ list \in Seq(Entry) /\ OneEach(list) /\ Len(list) \in Nat /\ DOMAIN list = 1 .. Len(list)
BY DEF BlmInv, BlmTypeOK, Good

\* An operation that takes from the list and sends nothing.
LEMMA LessKept ==
  ASSUME BlmInv, Weaker(list, list'), UNCHANGED <<now, fw, lastSend, suspended, user, todo>>
  PROVE  BlmInv'
<1>1. Good(list', user)
  BY InvParts, GoodWeaker
<1>2. Told(list, fw) => Told(list', fw)
  <2>1. (UserOK(list, user) => UserOK(list', user)) /\ (Told(list, fw) => Told(list', fw))
    BY WeakerKeeps
  <2>2. QED
    BY <2>1
<1>3. BlmTypeOK'
  BY <1>1 DEF BlmInv, BlmTypeOK, Good
<1>4. OneEach(list') /\ Len(list') <= MaxEntries /\ UserOK(list', user)
  BY <1>1 DEF Good
<1>5. suspended = "no" /\ lastSend = "ok" => Told(list', fw)
  BY <1>2 DEF BlmInv
<1>6. /\ \A k \in DOMAIN todo : todo[k] \in user \/ (k = 1 /\ todo[k] = "send")
      /\ suspended = "no" /\ lastSend = "ok" /\ (todo = <<>> \/ Head(todo) # "send") => FwUser(fw, user)
  BY DEF BlmInv
<1>7. QED
  BY <1>3, <1>4, <1>5, <1>6 DEF BlmInv

\* An operation that adds, or sends.
LEMMA AddedKept == ASSUME BlmInv, Added(user), UNCHANGED <<now, suspended, user, todo>> PROVE BlmInv'
<1>1. list' \in Seq(Entry) /\ OneEach(list') /\ Len(list') <= MaxEntries /\ UserOK(list', user)
  BY DEF Added, Sent, Good
<1>2. BlmTypeOK'
  BY <1>1 DEF BlmInv, BlmTypeOK, Added, Sent
<1>3. suspended = "no" /\ lastSend' = "ok" => Told(list', fw')
  BY DEF BlmInv, Added, Sent
<1>4. /\ \A k \in DOMAIN todo : todo[k] \in user \/ (k = 1 /\ todo[k] = "send")
      /\ suspended = "no" /\ lastSend' = "ok" /\ (todo = <<>> \/ Head(todo) # "send") => FwUser(fw', user)
  BY DEF BlmInv, Added, Sent
<1>5. QED
  BY <1>1, <1>2, <1>3, <1>4 DEF BlmInv

\* Reject
LEMMA RejectKeeps == ASSUME BlmInv, NEW b \in Bssids, NEW rej \in Rejections[b], Reject(b, rej) PROVE BlmInv'
<1>1. Reason(rej) /\ rej.type # "U_BLACK"
  BY BlmAssumption DEF Reason
<1>2. Add(b, rej) /\ UNCHANGED <<now, suspended, user, todo>>
  BY DEF Reject
<1>3. Good(list, user) /\ now \in Nat
  BY InvParts
<1>4. Added(user)
  BY <1>1, <1>2, <1>3, AddOK
<1>5. QED
  BY <1>2, <1>4, AddedKept

\* ActionOnBssid
LEMMA ActionOnBssidKeeps == ASSUME BlmInv, NEW b \in Bssids, NEW strong \in BOOLEAN, ActionOnBssid(b, strong) PROVE BlmInv'
<1> DEFINE i == IndexOf(list, b)
           old == list[i]
           e == UpdateApInfo(old, strong)
<1>1. /\ i <= Len(list)
      /\ list' = IF Lists(e) = {} THEN RemoveAt(list, i) ELSE [list EXCEPT ![i] = e]
      /\ UNCHANGED <<now, fw, lastSend, suspended, user, todo>>
  BY DEF ActionOnBssid
<1>2. i \in DOMAIN list
  BY <1>1, InvParts, IndexIs
<1> HIDE DEF i
<1>3. list \in Seq(Entry) /\ OneEach(list) /\ now \in Nat
  BY InvParts
<1>4. old \in Entry
  BY <1>2, <1>3
<1>5. e \in Entry /\ e.b = old.b /\ Lists(e) \subseteq Lists(old) \cup {"MON"}
  <2> HIDE DEF old
  <2>1. QED
    BY <1>3, <1>4, UpdateApInfoOK
<1> HIDE DEF e
<1>6. Weaker(list, RemoveAt(list, i))
  BY <1>2, <1>3, WeakerRemove
<1>7. Weaker(list, [list EXCEPT ![i] = e])
  BY <1>2, <1>3, <1>5, WeakerReplace
<1>8. Weaker(list, list')
  BY <1>1, <1>6, <1>7
<1>9. QED
  BY <1>1, <1>8, LessKept

\* Connected
LEMMA ConnectedKeeps == ASSUME BlmInv, NEW b \in Bssids, Connected(b) PROVE BlmInv'
<1> DEFINE i == IndexOf(list, b)
           old == list[i]
           e == [old EXCEPT !.connected = now]
<1>1. i <= Len(list) /\ UNCHANGED <<now, fw, lastSend, suspended, user, todo>>
  BY DEF Connected
<1>2. list' = [list EXCEPT ![i] = e]
  BY Zenon DEF Connected
<1>3. i \in DOMAIN list
  BY <1>1, InvParts, IndexIs
<1> HIDE DEF i
<1>4. list \in Seq(Entry) /\ OneEach(list) /\ now \in Nat
  BY InvParts
<1>5. old \in Entry
  BY <1>3, <1>4
<1>6. e \in Entry /\ e.b = old.b /\ Lists(e) = Lists(old)
  <2> HIDE DEF old
  <2>1. e \in Entry /\ e.b = old.b /\ e.at = old.at
    BY <1>4, <1>5 DEF Entry
  <2>2. QED
    BY <2>1 DEF Lists
<1> HIDE DEF e
<1>7. Weaker(list, [list EXCEPT ![i] = e])
  BY <1>3, <1>4, <1>6, WeakerReplace
<1>8. QED
  BY <1>1, <1>2, <1>7, LessKept

\* Disconnected
LEMMA DisconnectedKeeps == ASSUME BlmInv, NEW b \in Bssids, Disconnected(b) PROVE BlmInv'
<1> DEFINE i == IndexOf(list, b)
           old == list[i]
           no == FALSE
           e == UpdateApInfo(old, no)
           S == {"D_AVOID", "D_BLACK", "MON", "U_AVOID"}
           clean == Off(e, S)
<1>1. /\ i <= Len(list) /\ UNCHANGED <<now, suspended, user, todo>>
      /\ \/ SendToFw(RemoveAt(list, i))
         \/ list' = [list EXCEPT ![i] = clean] /\ fw' = fw /\ lastSend' = lastSend
         \/ list' = [list EXCEPT ![i] = e] /\ fw' = fw /\ lastSend' = lastSend
  BY DEF Disconnected
<1>2. i \in DOMAIN list
  BY <1>1, InvParts, IndexIs
<1> HIDE DEF i
<1>3. list \in Seq(Entry) /\ OneEach(list) /\ now \in Nat /\ Good(list, user)
  BY InvParts
<1>4. old \in Entry
  BY <1>2, <1>3
<1>5. e \in Entry /\ e.b = old.b /\ Lists(e) \subseteq Lists(old) \cup {"MON"}
  <2> HIDE DEF old, no
  <2>1. QED
    BY <1>3, <1>4, UpdateApInfoOK
<1> HIDE DEF e, S
<1>6. clean \in Entry /\ Lists(clean) = Lists(e) \ S /\ clean.b = e.b
  BY <1>5, OffOK
<1> HIDE DEF clean
<1>7. Weaker(list, RemoveAt(list, i))
  BY <1>2, <1>3, WeakerRemove
<1>8. Weaker(list, [list EXCEPT ![i] = e])
  BY <1>2, <1>3, <1>5, WeakerReplace
<1>9. Weaker(list, [list EXCEPT ![i] = clean])
  <2>1. clean \in Entry /\ clean.b = old.b /\ Lists(clean) \subseteq Lists(old) \cup {"MON"}
    BY <1>5, <1>6
  <2>2. QED
    BY <1>2, <1>3, <2>1, WeakerReplace
<1>10. CASE SendToFw(RemoveAt(list, i))
  <2>1. Good(RemoveAt(list, i), user)
    BY <1>3, <1>7, GoodWeaker
  <2>2. Sent(user)
    BY <1>3, <1>10, <2>1, SendOK
  <2>3. Added(user)
    BY <2>2 DEF Added
  <2>4. QED
    BY <1>1, <2>3, AddedKept
<1>11. CASE \/ list' = [list EXCEPT ![i] = clean] /\ fw' = fw /\ lastSend' = lastSend
            \/ list' = [list EXCEPT ![i] = e] /\ fw' = fw /\ lastSend' = lastSend
  <2>1. Weaker(list, list') /\ UNCHANGED <<now, fw, lastSend, suspended, user, todo>>
    BY <1>1, <1>8, <1>9, <1>11
  <2>2. QED
    BY <2>1, LessKept
<1>12. QED
  BY <1>1, <1>10, <1>11

\* NewUserList: nobody is on userspace's blacklist now.
LEMMA NewUserListKeeps == ASSUME BlmInv, NEW aps \in UserLists, NewUserList(aps) PROVE BlmInv'
<1> DEFINE U == Range1(aps)
           send == <<"send">>
<1>1. /\ user' = U /\ list' = ClearUser(list) /\ todo' = send \o aps
      /\ UNCHANGED <<now, fw, lastSend, suspended>>
  BY DEF NewUserList
<1>2. aps \in Seq(Bssids)
  BY BlmAssumption
<1>3. U \subseteq Bssids /\ \A k \in DOMAIN aps : aps[k] \in U
  BY <1>2 DEF Range1
<1>4. list \in Seq(Entry) /\ OneEach(list) /\ Good(list, user)
  BY InvParts
<1>5. Weaker(list, ClearUser(list)) /\ UserOK(ClearUser(list), {})
  BY <1>4, ClearUserWeaker
<1>6. Good(list', user)
  BY <1>1, <1>4, <1>5, GoodWeaker
<1>7. UserOK(list', U)
  BY <1>1, <1>5 DEF UserOK
<1>8. Told(list, fw) => Told(list', fw)
  <2>1. (UserOK(list, user) => UserOK(list', user)) /\ (Told(list, fw) => Told(list', fw))
    BY <1>1, <1>5, WeakerKeeps
  <2>2. QED
    BY <2>1
<1> HIDE DEF U
<1>9. /\ todo' \in Seq(Bssids \cup {"send"}) /\ todo' # <<>> /\ Head(todo') = "send"
      /\ \A k \in DOMAIN todo' : todo'[k] \in U \/ (k = 1 /\ todo'[k] = "send")
  <2> DEFINE T == Bssids \cup {"send"}
             d == Len(aps)
             q == send \o aps
  <2>1. send \in Seq(T) /\ Len(send) = 1 /\ send[1] = "send"
    OBVIOUS
  <2>2. aps \in Seq(T) /\ d \in Nat /\ DOMAIN aps = 1 .. d
    BY <1>2
  <2> HIDE DEF send, T
  <2>3. q \in Seq(T) /\ Len(q) = 1 + d /\ \A k \in 1 .. 1 + d : q[k] = IF k <= 1 THEN send[k] ELSE aps[k - 1]
    <3> DEFINE c == Len(send)
    <3> HIDE DEF d
    <3>1. c = 1
      BY <2>1
    <3>2. q \in Seq(T) /\ Len(q) = c + d /\ \A k \in 1 .. c + d : q[k] = IF k <= c THEN send[k] ELSE aps[k - c]
      BY <2>1, <2>2, ConcatProperties DEF d
    <3>3. QED
      BY <3>1, <3>2
  <2>4. DOMAIN q = 1 .. Len(q)
    BY <2>3
  <2> HIDE DEF q, d
  <2>5. 1 \in 1 .. 1 + d /\ q[1] = "send" /\ q # <<>> /\ Head(q) = "send"
    BY <2>1, <2>2, <2>3
  <2>6. ASSUME NEW k \in DOMAIN q PROVE q[k] \in U \/ (k = 1 /\ q[k] = "send")
    <3>1. k = 1 \/ (k - 1 \in 1 .. d /\ ~ (k <= 1) /\ k \in 1 .. 1 + d)
      BY <2>2, <2>3, <2>4
    <3>2. QED
      BY <1>3, <2>2, <2>3, <2>5, <3>1
  <2>7. QED
    BY <1>1, <2>3, <2>5, <2>6 DEF q, T
<1>10. list' \in Seq(Entry) /\ OneEach(list') /\ Len(list') <= MaxEntries
  BY <1>6 DEF Good
<1>11. BlmTypeOK'
  BY <1>1, <1>3, <1>9, <1>10 DEF BlmInv, BlmTypeOK
<1>12. suspended' = "no" /\ lastSend' = "ok" => Told(list', fw')
  BY <1>1, <1>8 DEF BlmInv
<1>13. QED
  BY <1>1, <1>7, <1>9, <1>10, <1>11, <1>12 DEF BlmInv

\* What is left to do after a step of it: APs of userspace's list.
LEMMA TodoTail ==
  ASSUME BlmInv, todo # <<>>
  PROVE  LET t == Tail(todo)
         IN  /\ t \in Seq(Bssids \cup {"send"}) /\ \A k \in DOMAIN t : t[k] \in user
             /\ (t = <<>> \/ Head(t) # "send") /\ Head(todo) = todo[1] /\ 1 \in DOMAIN todo
<1> DEFINE T == Bssids \cup {"send"}
           q == todo
           t == Tail(q)
<1>1. q \in Seq(T) /\ q # <<>> /\ user \subseteq Bssids
  BY DEF BlmInv, BlmTypeOK
<1>2. \A k \in DOMAIN q : q[k] \in user \/ (k = 1 /\ q[k] = "send")
  BY DEF BlmInv
<1>3. "send" \notin user
  BY <1>1, BlmAssumption
<1> HIDE DEF q, T
<1>4. /\ t \in Seq(T) /\ DOMAIN t = 1 .. Len(q) - 1 /\ DOMAIN q = 1 .. Len(q) /\ Len(q) \in Nat \ {0}
      /\ Head(q) = q[1] /\ \A k \in DOMAIN t : t[k] = q[k + 1]
  BY <1>1
<1>5. t = <<>> \/ (1 \in DOMAIN t /\ Head(t) = t[1])
  BY <1>4
<1> HIDE DEF t
<1>6. \A k \in DOMAIN t : k + 1 \in DOMAIN q /\ k + 1 # 1
  BY <1>4
<1>7. \A k \in DOMAIN t : t[k] \in user
  BY <1>2, <1>4, <1>6
<1>8. 1 \in DOMAIN q
  BY <1>4
<1>9. t = <<>> \/ Head(t) # "send"
  BY <1>3, <1>5, <1>7
<1>10. QED
  BY <1>4, <1>7, <1>8, <1>9 DEF q, t, T

\* NewUserListSend
LEMMA NewUserListSendKeeps == ASSUME BlmInv, NewUserListSend PROVE BlmInv'
<1>1. todo # <<>> /\ SendToFw(list) /\ todo' = Tail(todo) /\ UNCHANGED <<now, suspended, user>>
  BY DEF NewUserListSend
<1>2. Good(list, user) /\ now \in Nat
  BY InvParts
<1>3. Sent(user)
  BY <1>1, <1>2, SendOK
<1>4. list' \in Seq(Entry) /\ OneEach(list') /\ Len(list') <= MaxEntries /\ UserOK(list', user)
  BY <1>3 DEF Sent, Good
<1>5. todo' \in Seq(Bssids \cup {"send"}) /\ \A k \in DOMAIN todo' : todo'[k] \in user
  BY <1>1, TodoTail
<1>6. BlmTypeOK'
  BY <1>1, <1>3, <1>4, <1>5 DEF BlmInv, BlmTypeOK, Sent
<1>7. suspended' = "no" /\ lastSend' = "ok" => Told(list', fw') /\ FwUser(fw', user)
  BY <1>1, <1>3 DEF Sent
<1>8. QED
  BY <1>1, <1>4, <1>5, <1>6, <1>7 DEF BlmInv

\* NewUserListAdd
LEMMA NewUserListAddKeeps == ASSUME BlmInv, NewUserListAdd PROVE BlmInv'
<1> DEFINE b == Head(todo)
           rej == [type |-> "U_BLACK"]
<1>1. /\ todo # <<>> /\ b # "send" /\ Add(b, rej) /\ (todo' = Tail(todo) \/ todo' = <<>>)
      /\ UNCHANGED <<now, suspended, user>>
  BY DEF NewUserListAdd
<1>2. Good(list, user) /\ now \in Nat /\ user \subseteq Bssids
  BY InvParts
<1>3. b \in user
  <2>1. b = todo[1] /\ 1 \in DOMAIN todo
    BY <1>1, TodoTail
  <2>2. todo[1] \in user \/ todo[1] = "send"
    BY <2>1 DEF BlmInv
  <2>3. QED
    BY <1>1, <2>1, <2>2
<1> HIDE DEF b
<1>4. Reason(rej) /\ rej.type = "U_BLACK"
  BY DEF Reason
<1> HIDE DEF rej
<1>5. Added(user)
  BY <1>1, <1>2, <1>3, <1>4, AddOK
<1>6. list' \in Seq(Entry) /\ OneEach(list') /\ Len(list') <= MaxEntries /\ UserOK(list', user)
  BY <1>5 DEF Added, Sent, Good
<1>7. todo' \in Seq(Bssids \cup {"send"}) /\ \A k \in DOMAIN todo' : todo'[k] \in user
  <2>1. CASE todo' = Tail(todo)
    BY <1>1, <2>1, TodoTail
  <2>2. CASE todo' = <<>>
    BY <2>2
  <2>3. QED
    BY <1>1, <2>1, <2>2
<1>8. BlmTypeOK'
  BY <1>1, <1>5, <1>6, <1>7 DEF BlmInv, BlmTypeOK, Added, Sent
<1>9. suspended = "no" /\ lastSend = "ok" => Told(list, fw) /\ FwUser(fw, user)
  BY <1>1 DEF BlmInv, b
<1>10. suspended' = "no" /\ lastSend' = "ok" => Told(list', fw') /\ FwUser(fw', user)
  BY <1>1, <1>5, <1>9 DEF Added, Sent
<1>11. QED
  BY <1>1, <1>6, <1>7, <1>8, <1>10 DEF BlmInv

\* WifiOff
LEMMA WifiOffKeeps == ASSUME BlmInv, WifiOff PROVE BlmInv'
<1>1. SendToFw(<<>>) /\ UNCHANGED <<now, suspended, user, todo>>
  BY DEF WifiOff
<1>2. now \in Nat
  BY InvParts
<1>3. Good(<<>>, user)
  <2>1. MaxEntries \in Nat
    BY BlmAssumption
  <2>2. QED
    BY <2>1 DEF Good, OneEach, UserOK
<1>4. Sent(user)
  BY <1>1, <1>2, <1>3, SendOK
<1>5. Added(user)
  BY <1>4 DEF Added
<1>6. QED
  BY <1>1, <1>5, AddedKept

\* BlmResumeSend: from here on the firmware is up to date again, unless the
\* list did not get there.
LEMMA BlmResumeSendKeeps == ASSUME BlmInv, BlmResumeSend PROVE BlmInv'
<1>1. suspended = "resuming" /\ SendToFw(list) /\ suspended' = "no" /\ UNCHANGED <<now, user, todo>>
  BY DEF BlmResumeSend
<1>2. Good(list, user) /\ now \in Nat
  BY InvParts
<1>3. Sent(user)
  BY <1>1, <1>2, SendOK
<1>4. list' \in Seq(Entry) /\ OneEach(list') /\ Len(list') <= MaxEntries /\ UserOK(list', user)
  BY <1>3 DEF Sent, Good
<1>5. BlmTypeOK'
  BY <1>1, <1>3, <1>4 DEF BlmInv, BlmTypeOK, Sent
<1>6. lastSend' = "ok" => Told(list', fw') /\ FwUser(fw', user)
  BY <1>1, <1>3 DEF Sent
<1>7. \A k \in DOMAIN todo : todo[k] \in user \/ (k = 1 /\ todo[k] = "send")
  BY DEF BlmInv
<1>8. QED
  BY <1>1, <1>4, <1>5, <1>6, <1>7 DEF BlmInv

\* BlmSuspend, BlmResume and Tick leave the list and the firmware as they are.
LEMMA RestKeeps == ASSUME BlmInv, BlmSuspend \/ BlmResume \/ Tick PROVE BlmInv'
<1>1. CASE BlmSuspend \/ BlmResume
  <2>1. suspended' \in {"yes", "resuming"} /\ UNCHANGED <<list, now, fw, lastSend, user, todo>>
    BY <1>1 DEF BlmSuspend, BlmResume
  <2>2. QED
    BY <2>1 DEF BlmInv, BlmTypeOK
<1>2. CASE Tick
  <2>1. now' = now + 1 /\ UNCHANGED <<list, fw, lastSend, suspended, user, todo>>
    BY <1>2 DEF Tick
  <2>2. now' \in Nat
    BY <2>1, InvParts
  <2>3. QED
    BY <2>1, <2>2 DEF BlmInv, BlmTypeOK
<1>3. QED
  BY <1>1, <1>2

-----------------------------------------------------------------------------
\* The inductive invariant of the blacklist manager: an AP has one entry, the
\* list has its bound, userspace's blacklist is what was asked for last, and
\* outside a suspension the firmware's table is what the list calls for since
\* the last send that got there.
THEOREM BlmInvariance == BlmSpec => []BlmInv
<1>1. BlmInit => BlmInv
  <2> SUFFICES ASSUME BlmInit PROVE BlmInv
    OBVIOUS
  <2>1. list = <<>> /\ now = 0 /\ fw = {} /\ lastSend = "ok" /\ suspended = "no" /\ user = {} /\ todo = <<>>
    BY DEF BlmInit
  <2>2. MaxEntries \in Nat
    BY BlmAssumption
  <2>3. BlmTypeOK
    BY <2>1 DEF BlmTypeOK
  <2>4. Told(list, fw) /\ FwUser(fw, user) /\ UserOK(list, user) /\ OneEach(list)
    BY <2>1 DEF Told, FwUser, UserOK, OneEach
  <2>5. Len(list) <= MaxEntries /\ \A k \in DOMAIN todo : FALSE
    BY <2>1, <2>2
  <2>6. QED
    BY <2>3, <2>4, <2>5 DEF BlmInv
<1>2. BlmInv /\ [BlmNext]_blmVars => BlmInv'
  <2> SUFFICES ASSUME BlmInv, [BlmNext]_blmVars PROVE BlmInv'
    OBVIOUS
  <2>1. ASSUME NEW b \in Bssids, NEW rej \in Rejections[b], Reject(b, rej) PROVE BlmInv'
    BY <2>1, RejectKeeps
  <2>2. ASSUME NEW b \in Bssids, NEW strong \in BOOLEAN, ActionOnBssid(b, strong) PROVE BlmInv'
    BY <2>2, ActionOnBssidKeeps
  <2>3. ASSUME NEW b \in Bssids, Connected(b) \/ Disconnected(b) PROVE BlmInv'
    BY <2>3, ConnectedKeeps, DisconnectedKeeps
  <2>4. ASSUME NEW aps \in UserLists, NewUserList(aps) PROVE BlmInv'
    BY <2>4, NewUserListKeeps
  <2>5. CASE NewUserListSend \/ NewUserListAdd
    BY <2>5, NewUserListSendKeeps, NewUserListAddKeeps
  <2>6. CASE WifiOff \/ BlmResumeSend
    BY <2>6, WifiOffKeeps, BlmResumeSendKeeps
  <2>7. CASE BlmSuspend \/ BlmResume \/ Tick
    BY <2>7, RestKeeps
  <2>8. CASE UNCHANGED blmVars
    BY <2>8 DEF BlmInv, BlmTypeOK, blmVars
  <2>9. QED
    BY <2>1, <2>2, <2>3, <2>4, <2>5, <2>6, <2>7, <2>8 DEF BlmNext
<1>3. QED
  BY <1>1, <1>2, PTL DEF BlmSpec

\* add_bssid and the eviction: the list never outgrows its bound and has one
\* entry for an AP, however entries expire, move or are evicted.
THEOREM OneEntry == BlmSpec => []OneEntryPerAp
<1>1. BlmInv => OneEntryPerAp
  BY DEF BlmInv, OneEach, OneEntryPerAp
<1>2. QED
  BY <1>1, BlmInvariance, PTL

\* blm_send_reject_ap_list_to_fw: outside a suspension, and unless the last
\* send failed, the firmware was sent every AP that is rejected or avoided, or
\* the most important ones; one send that succeeds makes up for all that failed.
THEOREM FirmwareTold == BlmSpec => []FirmwareKnows
<1>1. BlmInv => FirmwareKnows
  BY DEF BlmInv, Told, FirmwareKnows
<1>2. QED
  BY <1>1, BlmInvariance, PTL

\* blm_add_userspace_black_list: nobody stays blacklisted for userspace who is
\* not in the list userspace sent last, in the host at once and in the firmware
\* unless the last send failed.
THEOREM UserListIsLast == BlmSpec => []UserListReplaced
<1>1. BlmInv => UserListReplaced
  BY DEF BlmInv, UserOK, FwUser, UserListReplaced
<1>2. QED
  BY <1>1, BlmInvariance, PTL

=============================================================================
