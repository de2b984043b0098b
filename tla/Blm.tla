-------------------------------- MODULE Blm --------------------------------
(***************************************************************************)
(* components/blacklist_mgr: the access points a station should not or     *)
(* would rather not connect to.  An entry is on one or more lists, each    *)
(* with the time it was put there; lists run out, entries move to the      *)
(* monitor list, and an AP that misbehaves often enough is blacklisted.    *)
(* The firmware is sent the lists, except while the host is suspended; a   *)
(* send that fails is logged and not repeated.                             *)
(*                                                                         *)
(* Operations hold reject_ap_list_lock and are one step each; replacing    *)
(* userspace's blacklist takes the lock once for every AP.                 *)
(***************************************************************************)
EXTENDS Naturals, Sequences, SequencesExt, FiniteSetsExt, Queues

CONSTANTS
  Bssids,
  MaxEntries,   \* MAX_BAD_AP_LIST_SIZE and PDEV_MAX_NUM_BSSID_DISALLOW_LIST
  Thresh,       \* bad_bssid_counter_thresh
  AvoidTime, BlackTime, ResetTime, RetryDelay, RssiTime,
  Rejections,   \* bound: which AP is rejected for which reason
  UserLists,    \* bound: the blacklists userspace sends, without repetitions
  MaxTime       \* bound: the clock

ASSUME BlmAssumption ==
  /\ MaxEntries \in Nat \ {0} /\ Thresh \in Nat \ {0} /\ MaxTime \in Nat
  /\ {AvoidTime, BlackTime, RetryDelay, RssiTime} \subseteq Nat \ {0}
  /\ ResetTime \in Nat
  /\ \A b \in Bssids : \A rej \in Rejections[b] :
       rej.type \in {"U_AVOID", "D_AVOID"} \/ (rej.type = "RSSI" /\ rej.delay \in Nat)
  /\ \A aps \in UserLists : aps \in Seq(Bssids)
  /\ "send" \notin Bssids

VARIABLES
  list,       \* reject_ap_list
  now,
  fw,         \* the entries the firmware was sent: AP and list
  lastSend,   \* "failed" when the last send that was tried did not get there
  suspended,  \* is_suspended, and "resuming" between the resume handler's steps
  user,       \* the blacklist userspace asked for last
  todo        \* what blm_add_userspace_black_list has still to do

blmVars == <<list, now, fw, lastSend, suspended, user, todo>>

\* The lists, in the order in which they give way to a new entry and, from
\* the other end, are sent to the firmware.
Evictable == <<"MON", "D_AVOID", "U_AVOID", "RSSI", "D_BLACK", "U_BLACK">>
Sendable == <<"U_BLACK", "D_BLACK", "RSSI", "U_AVOID", "D_AVOID">>

Range1(S) == {S[i] : i \in DOMAIN S}
Lists(e) == DOMAIN e.at
Off(e, S) == [e EXCEPT !.at = [t \in DOMAIN @ \ S |-> @[t]]]
On(e, t) == [e EXCEPT !.at = [u \in DOMAIN @ \cup {t} |-> IF u = t THEN now ELSE @[u]]]
NewEntry(b) == [b |-> b, at |-> [t \in {} |-> 0], bad |-> 0, connected |-> 0, delay |-> 0]

BlmInit ==
  /\ list = <<>>
  /\ now = 0
  /\ fw = {}
  /\ lastSend = "ok"
  /\ suspended = "no"
  /\ user = {}
  /\ todo = <<>>

-----------------------------------------------------------------------------
(* Entries. *)

Age(e, t) == now - e.at[t]

\* blm_update_ap_info: whose time is up.  strong: the AP's signal now meets
\* what the RSSI rejection asked for.
Expired(e, strong) ==
  {t \in Lists(e) :
     CASE t \in {"U_AVOID", "D_AVOID"} -> Age(e, t) >= AvoidTime
       [] t = "D_BLACK" -> Age(e, t) >= BlackTime
       [] t = "RSSI" -> strong \/ (e.delay > 0 /\ Age(e, t) >= e.delay)
       [] OTHER -> FALSE}

UpdateApInfo(e, strong) ==
  LET over == Expired(e, strong)
  IN  IF over \subseteq {"RSSI"} THEN Off(e, over) ELSE On(Off(e, over), "MON")

\* The walk over the whole list that adding and sending begin with.  Filling
\* stops when the firmware's table is full, but the two limits are the same,
\* so that the pass over the first list type always reaches every entry.
Pruned(l) ==
  LET kept == Select(l, {e \in Range1(l) : Lists(UpdateApInfo(e, FALSE)) # {}})
  IN  [i \in DOMAIN kept |-> UpdateApInfo(kept[i], FALSE)]

\* blm_handle_avoid_list; the counter stops at the threshold here.
HandleAvoid(e, t) ==
  LET bad  == Min({e.bad + 1, Thresh})
      hit  == [Off(e, {"MON"}) EXCEPT !.bad = bad]
  IN  IF bad >= Thresh THEN On(Off(hit, {t}), "D_BLACK")
      ELSE [On(hit, t) EXCEPT !.connected = now]

\* blm_modify_entry
Modify(e, rej) ==
  CASE rej.type \in {"U_AVOID", "D_AVOID"} -> HandleAvoid(e, rej.type)
    [] rej.type = "U_BLACK" -> On(e, "U_BLACK")
    [] rej.type = "RSSI" -> [On(e, "RSSI") EXCEPT !.delay = rej.delay]

-----------------------------------------------------------------------------
(* Making room. *)

\* blm_get_delta_of_bssid
Delta(e, t) ==
  LET left(limit) == IF limit > Age(e, t) THEN limit - Age(e, t) ELSE 0
  IN  CASE t \in {"U_AVOID", "D_AVOID"} -> left(AvoidTime)
        [] t = "D_BLACK" -> left(BlackTime)
        [] t = "RSSI" -> left(IF e.delay > 0 THEN e.delay ELSE RssiTime)
        [] t \in {"U_BLACK", "MON"} -> Age(e, t)

\* blm_is_oldest_entry: 0 also stands for "none found yet".
IsOldest(t, delta, oldest) ==
  IF t \in {"U_BLACK", "MON"} THEN delta > oldest ELSE oldest = 0 \/ delta < oldest

\* blm_try_delete_bssid_in_list: the place of the entry to delete, or 0.
Victim(l, t) ==
  LET scan[i \in 0 .. Len(l)] ==
        IF i = 0 THEN [at |-> 0, delta |-> 0]
        ELSE IF Lists(l[i]) = {t} /\ IsOldest(t, Delta(l[i], t), scan[i - 1].delta)
        THEN [at |-> i, delta |-> Delta(l[i], t)]
        ELSE scan[i - 1]
  IN  scan[Len(l)].at

\* blm_remove_lowest_delta_entry
MakeRoom(l) ==
  LET found == Select(Evictable, {t \in Range1(Evictable) : Victim(l, t) # 0})
  IN  IF found = <<>> THEN l ELSE RemoveAt(l, Victim(l, Head(found)))

\* blm_fill_reject_list for every list in turn, up to the firmware's limit.
FillAll(l) ==
  LET of(t) == [i \in DOMAIN l |-> <<l[i].b, t>>]
      on(k) == Select(of(Sendable[k]), {<<e.b, Sendable[k]>> : e \in {d \in Range1(l) : Sendable[k] \in Lists(d)}})
      all   == on(1) \o on(2) \o on(3) \o on(4) \o on(5)
  IN  Range1(SubSeq(all, 1, Min({Len(all), MaxEntries})))

\* blm_send_reject_ap_list_to_fw.  It fails when there is no memory, before
\* the walk over the list, or when the message does not get through.
SendToFw(l) ==
  IF suspended = "yes" THEN list' = l /\ UNCHANGED <<fw, lastSend>>
  ELSE \/ list' = Pruned(l) /\ fw' = FillAll(Pruned(l)) /\ lastSend' = "ok"
       \/ list' \in {l, Pruned(l)} /\ UNCHANGED fw /\ lastSend' = "failed"

IndexOf(l, b) == Min({i \in DOMAIN l : l[i].b = b} \cup {Len(l) + 1})

\* Mutant: room is made for one entry more than the list may have.
AddLate(b, rej) ==
  LET i    == IndexOf(list, b)
      l    == Pruned(SubSeq(list, 1, Min({i, Len(list)}))) \o SubSeq(list, i + 1, Len(list))
      j    == IndexOf(l, b)
      room == IF Len(l) > MaxEntries THEN MakeRoom(l) ELSE l
  IN  IF j <= Len(l) THEN SendToFw([l EXCEPT ![j] = Modify(@, rej)])
      ELSE SendToFw(Append(room, Modify(NewEntry(b), rej)))

\* blm_add_bssid_to_reject_list.  The walk stops at the entry it looks for:
\* those behind it are not brought up to date.  When nothing could be evicted,
\* or there is no memory for the entry, what was evicted stays so.
Add(b, rej) ==
  LET i    == IndexOf(list, b)
      head == Pruned(SubSeq(list, 1, Min({i, Len(list)})))
      tail == SubSeq(list, i + 1, Len(list))
      l    == head \o tail
      j    == IndexOf(l, b)
      room == IF Len(l) = MaxEntries THEN MakeRoom(l) ELSE l
  IN  IF j <= Len(l) THEN SendToFw([l EXCEPT ![j] = Modify(@, rej)])
      ELSE \/ list' = room /\ UNCHANGED <<fw, lastSend>>
           \/ Len(room) # MaxEntries /\ SendToFw(Append(room, Modify(NewEntry(b), rej)))

-----------------------------------------------------------------------------
(* Operations. *)

\* From WMA, the connection manager or HDD.
Reject(b, rej) == Add(b, rej) /\ UNCHANGED <<now, suspended, user, todo>>

\* blm_action_on_bssid, when a candidate for a connection is judged.
ActionOnBssid(b, strong) ==
  LET i == IndexOf(list, b)
      e == UpdateApInfo(list[i], strong)
  IN  /\ i <= Len(list)
      /\ list' = IF Lists(e) = {} THEN RemoveAt(list, i) ELSE [list EXCEPT ![i] = e]
      /\ UNCHANGED <<now, fw, lastSend, suspended, user, todo>>

Connected(b) ==
  LET i == IndexOf(list, b)
  IN  /\ i <= Len(list)
      /\ list' = [list EXCEPT ![i].connected = now]
      /\ UNCHANGED <<now, fw, lastSend, suspended, user, todo>>

\* A connection that lasted: the driver's lists and userspace's avoid list
\* are forgiven.
Disconnected(b) ==
  LET i     == IndexOf(list, b)
      e     == UpdateApInfo(list[i], FALSE)
      since == CASE "D_BLACK" \in Lists(e) -> e.at["D_BLACK"]
                 [] "D_BLACK" \notin Lists(e) /\ "D_AVOID" \in Lists(e) -> Max({e.at["D_AVOID"], e.connected})
                 [] OTHER -> e.connected
      clean == Off(e, {"D_AVOID", "D_BLACK", "MON", "U_AVOID"})
  IN  /\ i <= Len(list)
      /\ IF now - since > ResetTime
         THEN IF Lists(clean) = {} THEN SendToFw(RemoveAt(list, i))
              ELSE list' = [list EXCEPT ![i] = clean] /\ UNCHANGED <<fw, lastSend>>
         ELSE list' = [list EXCEPT ![i] = e] /\ UNCHANGED <<fw, lastSend>>
      /\ UNCHANGED <<now, suspended, user, todo>>

\* Mutant: only entries that are on no other list are cleared.
ClearUserForgets(l) == Select(l, {e \in Range1(l) : Lists(e) # {"U_BLACK"}})

\* blm_clear_userspace_blacklist_info
ClearUser(l) ==
  LET rest == Select(l, {e \in Range1(l) : Lists(e) # {"U_BLACK"}})
  IN  [i \in DOMAIN rest |-> Off(rest[i], {"U_BLACK"})]

\* blm_add_userspace_black_list: clear, send, and add one by one.
NewUserList(aps) ==
  /\ todo = <<>>
  /\ user' = Range1(aps)
  /\ list' = ClearUser(list)
  /\ todo' = <<"send">> \o aps
  /\ UNCHANGED <<now, fw, lastSend, suspended>>

NewUserListSend ==
  /\ todo # <<>> /\ Head(todo) = "send"
  /\ SendToFw(list)
  /\ todo' = Tail(todo)
  /\ UNCHANGED <<now, suspended, user>>

\* The first AP that cannot be added ends it.
NewUserListAdd ==
  /\ todo # <<>> /\ Head(todo) # "send"
  /\ Add(Head(todo), [type |-> "U_BLACK"])
  /\ todo' = IF \E i \in DOMAIN list' : list'[i].b = Head(todo) THEN Tail(todo) ELSE <<>>
  /\ UNCHANGED <<now, suspended, user>>

\* ucfg_blm_wifi_off: blm_flush_reject_ap_list takes the lock that is held
\* already, which a qdf_mutex allows its owner; so this is one step.
WifiOff ==
  /\ todo = <<>>
  /\ SendToFw(<<>>)
  /\ UNCHANGED <<now, suspended, user, todo>>

BlmSuspend ==
  /\ suspended = "no"
  /\ suspended' = "yes"
  /\ UNCHANGED <<list, now, fw, lastSend, user, todo>>

\* ucfg_blm_resume_handler
BlmResume ==
  /\ suspended = "yes"
  /\ suspended' = "resuming"
  /\ UNCHANGED <<list, now, fw, lastSend, user, todo>>

\* Mutant: the list is not sent again.
BlmResumeSendNot ==
  suspended = "resuming" /\ suspended' = "no" /\ UNCHANGED <<list, now, fw, lastSend, user, todo>>

BlmResumeSend ==
  /\ suspended = "resuming"
  /\ SendToFw(list)
  /\ suspended' = "no"
  /\ UNCHANGED <<now, user, todo>>

Tick ==
  /\ now < MaxTime
  /\ now' = now + 1
  /\ UNCHANGED <<list, fw, lastSend, suspended, user, todo>>

BlmNext ==
  \/ \E b \in Bssids :
       \/ \E rej \in Rejections[b] : Reject(b, rej)
       \/ \E strong \in BOOLEAN : ActionOnBssid(b, strong)
       \/ Connected(b) \/ Disconnected(b)
  \/ \E aps \in UserLists : NewUserList(aps)
  \/ NewUserListSend \/ NewUserListAdd
  \/ WifiOff \/ BlmSuspend \/ BlmResume \/ BlmResumeSend \/ Tick

BlmSpec == BlmInit /\ [][BlmNext]_blmVars

-----------------------------------------------------------------------------
Rank(order, t) == CHOOSE k \in DOMAIN order : order[k] = t

\* The list never outgrows its bound and has one entry for an AP, whatever
\* entries expired, moved or were evicted on the way.
OneEntryPerAp ==
  /\ Len(list) <= MaxEntries
  /\ \A i, j \in DOMAIN list : list[i].b = list[j].b => i = j

\* The firmware knows of every AP that is rejected or avoided, also after a
\* suspension during which the lists changed; when there are more than it
\* takes, it has the more important ones.  (Expiry is the firmware's own.)
\* A send that failed leaves it behind until the next one that succeeds, which
\* makes up for everything that was missed.
FirmwareKnows ==
  suspended = "no" /\ lastSend = "ok" =>
    \A i \in DOMAIN list : \A t \in Lists(list[i]) \ {"MON"} :
      \/ <<list[i].b, t>> \in fw
      \/ /\ Cardinality(fw) = MaxEntries
         /\ \A p \in fw : Rank(Sendable, p[2]) <= Rank(Sendable, t)

\* Userspace's blacklist is what userspace asked for last: an AP that is not
\* in that list is not blacklisted for it, here or (once the change was sent,
\* and unless the last send failed) in the firmware, whatever other lists it
\* is on.
UserListReplaced ==
  /\ \A i \in DOMAIN list : "U_BLACK" \in Lists(list[i]) => list[i].b \in user
  /\ suspended = "no" /\ lastSend = "ok" /\ (todo = <<>> \/ Head(todo) # "send") =>
       \A p \in fw : p[2] = "U_BLACK" => p[1] \in user

=============================================================================
