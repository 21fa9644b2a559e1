---------------------------- MODULE WebhookProofs ----------------------------
(***************************************************************************)
(* Proofs about the two admission webhooks, each with the controller that  *)
(* it depends on: PodWebhook over the OZSetupKey controller, whose verdict *)
(* lets a Pod in, and OZGroup, the OZGroup controller with the webhook     *)
(* that guards its deletions.  The two do not share state, and OZGroup is  *)
(* an instance with variables of its own.                                  *)
(***************************************************************************)
EXTENDS PodWebhook, TLAPS

CONSTANTS Groups, Ids, NoGroup, OwnerKind, MaxLapses, MaxGroupEvents
VARIABLES api, cache, gsynced, owned, late, up, linked, byAdmin, gpc, gcur, loc,
          gfresh, lapses, gevents

G == INSTANCE OZGroup WITH None <- NoGroup, MaxEvents <- MaxGroupEvents,
                           synced <- gsynced, pc <- gpc, cur <- gcur,
                           fresh <- gfresh, events <- gevents

(* BoundsAssumption of OZGroup.                                            *)
GroupBounds == MaxLapses \in Nat /\ MaxGroupEvents \in Nat

-----------------------------------------------------------------------------
(* Types.                                                                  *)
LEMMA VerdictType == ASSUME NEW c \in Contents PROVE Verdict(c) \in Reasons
  BY DEF Verdict, Contents, Reasons

(* The steps of the OZSetupKey controller, its informers and its users.    *)
KStep == \/ \E k \in Keys : Start(k) \/ CacheSync(k)
         \/ ReadSecret \/ SetStatus \/ Abort \/ Restart
         \/ \E s \in Secrets : SecretSync(s) \/ MapSecret(s)
         \/ \E s \in Secrets, c \in Contents : UserWritesSecret(s, c)
         \/ \E k \in Keys, s \in Secrets \cup {None} : UserChangesRef(k, s)

LEMMA KeyStepType ==
  ASSUME TypeOK, pc = "read" => target # None, pc # "idle" => cur # None, KStep
  PROVE  TypeOK'
  <1> USE NoneAssumption, BoundsAssumption DEF TypeOK, objects, secrets
  <1>r. "InvalidConfig" \in Reasons /\ "none" \in Reasons
    BY DEF Reasons
  <1>e. EndPass => /\ pc' = "idle" /\ cur' = None /\ target' = None
                   /\ verdict' = "none" /\ fresh' \in BOOLEAN
    BY DEF EndPass
  <1>1. ASSUME NEW k \in Keys, Start(k) PROVE TypeOK'
    <2>1. ReferencedSecrets' \in [Secrets -> Keys \cup {None}]
      BY <1>1 DEF Start, Remember
    <2>2. /\ target' \in Secrets \cup {None} /\ verdict' \in Reasons
          /\ pc' \in {"read", "set"} /\ fresh' \in BOOLEAN
      BY <1>1, <1>r DEF Start
    <2> QED
      BY <1>1, <2>1, <2>2 DEF Start
  <1>2. ASSUME NEW k \in Keys, CacheSync(k) PROVE TypeOK'
    BY <1>2 DEF CacheSync
  <1>3. CASE ReadSecret
    <2>1. verdict' \in Reasons
      BY <1>3, VerdictType DEF ReadSecret
    <2> QED
      BY <1>3, <2>1 DEF ReadSecret
  <1>4. CASE SetStatus
    BY <1>4, <1>e, <1>r DEF SetStatus
  <1>5. CASE Abort
    BY <1>5, <1>e, <1>r DEF Abort
  <1>6. CASE Restart
    BY <1>6, <1>e, <1>r DEF Restart
  <1>7. ASSUME NEW s \in Secrets, SecretSync(s) \/ MapSecret(s) PROVE TypeOK'
    BY <1>7 DEF SecretSync, MapSecret
  <1>8. ASSUME NEW s \in Secrets, NEW c \in Contents, UserWritesSecret(s, c) PROVE TypeOK'
    BY <1>8 DEF UserWritesSecret, Event
  <1>9. ASSUME NEW k \in Keys, NEW s \in Secrets \cup {None}, UserChangesRef(k, s)
        PROVE  TypeOK'
    BY <1>9 DEF UserChangesRef, Event
  <1> QED
    BY <1>1, <1>2, <1>3, <1>4, <1>5, <1>6, <1>7, <1>8, <1>9 DEF KStep

(* A pass has an OZSetupKey, and a Secret when it comes to read one.       *)
PassOK == (pc = "idle" <=> cur = None) /\ (pc = "read" => target # None)

LEMMA PassStep == ASSUME TypeOK, PassOK, KStep PROVE PassOK'
  <1> USE NoneAssumption DEF PassOK, objects, secrets
  <1>1. ASSUME NEW k \in Keys, Start(k) PROVE PassOK'
    BY <1>1 DEF Start
  <1>2. ASSUME NEW k \in Keys, CacheSync(k) PROVE PassOK'
    BY <1>2 DEF CacheSync
  <1>3. CASE ReadSecret
    BY <1>3 DEF ReadSecret
  <1>4. CASE SetStatus \/ Abort \/ Restart
    BY <1>4 DEF SetStatus, Abort, Restart, EndPass
  <1>5. ASSUME NEW s \in Secrets, SecretSync(s) \/ MapSecret(s) PROVE PassOK'
    BY <1>5 DEF SecretSync, MapSecret
  <1>6. ASSUME NEW s \in Secrets, NEW c \in Contents, UserWritesSecret(s, c) PROVE PassOK'
    BY <1>6 DEF UserWritesSecret, Event
  <1>7. ASSUME NEW k \in Keys, NEW s \in Secrets \cup {None}, UserChangesRef(k, s)
        PROVE  PassOK'
    BY <1>7 DEF UserChangesRef, Event
  <1> QED
    BY <1>1, <1>2, <1>3, <1>4, <1>5, <1>6, <1>7 DEF KStep

(* What the webhook does leaves the controller alone, and the other way    *)
(* round.                                                                  *)
Admission == \E p \in Pods : LegacyInjector(p) \/ Default(p)

LEMMA WebhookSteps ==
  ASSUME [PNext]_pvars
  PROVE  \/ KStep /\ UNCHANGED webhook
         \/ Admission /\ UNCHANGED <<vars, cstat, profiles, setupKeys>>
         \/ UserChangesProfiles
         \/ UNCHANGED pvars
  <1>1. CASE PPass \/ PWatch \/ PUser \/ PRestart \/ (Abort /\ UNCHANGED <<cstat, webhook>>)
    BY <1>1 DEF PPass, PWatch, PUser, PRestart, KStep
  <1>2. CASE \E k \in Keys : PSync(k)
    BY <1>2 DEF PSync, KStep
  <1>3. CASE \E p \in Pods : LegacyInjector(p) \/ Default(p)
    BY <1>3 DEF Admission, LegacyInjector, Default
  <1> QED
    BY <1>1, <1>2, <1>3 DEF PNext

PodRecords == {Wanted, Plain} \cup {Injected(s) : s \in Secrets \cup SetupKeys}

LEMMA PInitType == PInit => PTypeOK /\ PassOK
  <1> SUFFICES ASSUME PInit PROVE PTypeOK /\ PassOK
    OBVIOUS
  <1> USE NoneAssumption, BoundsAssumption DEF PInit, Init
  <1>1. TypeOK
    <2>1. /\ stat \in [Keys -> Reasons] /\ verdict \in Reasons
          /\ secret \in [Secrets -> Contents] /\ scache \in [Secrets -> Contents]
      BY DEF Reasons, Contents
    <2>2. /\ ref \in [Keys -> Secrets \cup {None}] /\ cref \in [Keys -> Secrets \cup {None}]
          /\ synced \subseteq Keys /\ queue \subseteq Keys /\ notify \subseteq Secrets
          /\ ReferencedSecrets \in [Secrets -> Keys \cup {None}]
      OBVIOUS
    <2>3. /\ pc = "idle" /\ cur = None /\ target = None /\ fresh \in BOOLEAN
      OBVIOUS
    <2>4. faults \in 0..MaxFaults /\ events \in 0..MaxEvents
      OBVIOUS
    <2> QED
      BY <2>1, <2>2, <2>3, <2>4 DEF TypeOK
  <1>2. cstat \in [Keys -> Reasons]
    BY DEF Reasons
  <1>3. pod \in [Pods -> PodRecords]
    BY DEF PodRecords
  <1> QED
    BY <1>1, <1>2, <1>3 DEF PTypeOK, PassOK, PodRecords

LEMMA PStepType == PTypeOK /\ PassOK /\ [PNext]_pvars => (PTypeOK /\ PassOK)'
  <1> SUFFICES ASSUME PTypeOK, PassOK, [PNext]_pvars PROVE (PTypeOK /\ PassOK)'
    OBVIOUS
  <1>t. TypeOK /\ pod \in [Pods -> PodRecords] /\ cstat \in [Keys -> Reasons]
    BY DEF PTypeOK, PodRecords
  <1>c. ASSUME TypeOK', PassOK', cstat' \in [Keys -> Reasons], profiles' \subseteq Profiles,
               setupKeys' \subseteq SetupKeys, pod' \in [Pods -> PodRecords]
        PROVE  (PTypeOK /\ PassOK)'
    BY <1>c DEF PTypeOK, PodRecords
  <1>1. CASE KStep /\ UNCHANGED webhook
    <2>1. TypeOK' /\ PassOK'
      BY <1>1, <1>t, KeyStepType, PassStep DEF PassOK
    <2>2. cstat' \in [Keys -> Reasons]
      <3>1. CASE UNCHANGED cstat
        BY <1>t, <3>1
      <3>2. CASE PRestart
        BY <1>t, <3>2 DEF PRestart, TypeOK
      <3>3. ASSUME NEW k \in Keys, PSync(k) PROVE cstat' \in [Keys -> Reasons]
        BY <1>t, <3>3 DEF PSync, TypeOK
      <3> QED
        BY <3>1, <3>2, <3>3 DEF PNext, PPass, PWatch, PUser, LegacyInjector, Default,
           UserChangesProfiles, pvars
    <2>3. /\ profiles' \subseteq Profiles /\ setupKeys' \subseteq SetupKeys
          /\ pod' \in [Pods -> PodRecords]
      BY <1>1, <1>t DEF webhook, PTypeOK
    <2> QED
      BY <1>c, <2>1, <2>2, <2>3
  <1>2. CASE Admission /\ UNCHANGED <<vars, cstat, profiles, setupKeys>>
    <2>1. TypeOK' /\ PassOK'
      BY <1>2, <1>t DEF vars, TypeOK, PassOK
    <2>2. PICK p \in Pods : LegacyInjector(p) \/ Default(p)
      BY <1>2 DEF Admission
    <2>3. \E r \in PodRecords : pod' = [pod EXCEPT ![p] = r]
      <3>1. CASE LegacyInjector(p)
        <4>1. Key[p] \in Keys
          BY <3>1, PodsAssumption DEF LegacyInjector
        <4>2. cref[Key[p]] \in Secrets
          BY <1>t, <3>1, <4>1 DEF LegacyInjector, TypeOK
        <4> QED
          BY <3>1, <4>2 DEF LegacyInjector, PodRecords
      <3>2. CASE Default(p)
        <4>1. CASE pod' = [pod EXCEPT ![p] = Plain]
          BY <4>1 DEF PodRecords
        <4>2. CASE /\ SetupKeyRef[First(p)] \in setupKeys
                   /\ pod' = [pod EXCEPT ![p] = Injected(SetupKeyRef[First(p)])]
          BY <4>2 DEF PodRecords, PTypeOK
        <4> QED
          BY <3>2, <4>1, <4>2 DEF Default
      <3> QED
        BY <2>2, <3>1, <3>2
    <2>4. pod' \in [Pods -> PodRecords]
      BY <1>t, <2>3
    <2> QED
      BY <1>2, <1>c, <1>t, <2>1, <2>4 DEF PTypeOK
  <1>3. CASE UserChangesProfiles
    <2>1. TypeOK' /\ PassOK'
      BY <1>3, <1>t, BoundsAssumption DEF UserChangesProfiles, Event, TypeOK, PassOK
    <2>2. profiles' \subseteq Profiles /\ setupKeys' \subseteq SetupKeys
      BY <1>3 DEF UserChangesProfiles, PTypeOK
    <2> QED
      BY <1>3, <1>c, <1>t, <2>1, <2>2 DEF UserChangesProfiles
  <1>4. CASE UNCHANGED pvars
    BY <1>4 DEF pvars, vars, webhook, PTypeOK, TypeOK, PassOK
  <1> QED
    BY <1>1, <1>2, <1>3, <1>4, WebhookSteps

(* Type correctness: no pass, webhook call or user change leaves a verdict *)
(* that is no reason, an entry that is no OZSetupKey, or a Pod whose       *)
(* client has no Secret.                                                   *)
THEOREM WebhookTypeCorrect == PSpec => []PTypeOK
  <1>1. PSpec => [](PTypeOK /\ PassOK)
    BY PInitType, PStepType, PTL DEF PSpec
  <1> QED
    BY <1>1, PTL

-----------------------------------------------------------------------------
(* The map.  Owner says which OZSetupKey a Secret is for.                  *)
Apart(Owner, r) == \A k \in Keys : r[k] # None => Owner[r[k]] = k

(* What is known of an OZSetupKey k that is not in the queue: the map      *)
(* leads from its Secret to it; a pass on it has the reference that the    *)
(* informer has, and a verdict about what the informer has; and without a  *)
(* pass its status is that verdict, unless a change of the Secret is still *)
(* to be handled.  An informer copy that is current is so in full.         *)
Says(s) == IF s = None THEN "InvalidConfig" ELSE Verdict(scache[s])
Told(s) == s # None /\ s \in notify

Mapped(k) == k \notin queue /\ cref[k] # None => ReferencedSecrets[cref[k]] = k
InHand(k) == /\ cur = k /\ fresh => k \in synced
             /\ cur = k /\ k \notin queue => target = cref[k]
             /\ cur = k /\ k \notin queue /\ pc = "set" /\ verdict # Says(target) => Told(target)
Settled(k) == k \notin queue /\ cur # k /\ k \in synced /\ stat[k] # Says(cref[k]) => Told(cref[k])
Copied(k) == k \in synced => cref[k] = ref[k] /\ cstat[k] = stat[k]

WakeInv(Owner) ==
    /\ Apart(Owner, cref)
    /\ \A k \in Keys : Mapped(k) /\ InHand(k) /\ Settled(k) /\ Copied(k)

(* WakeInv holds at first, and every step keeps it.                        *)
LEMMA WakeInit ==
  ASSUME NEW CONSTANT Owner, PInit, Apart(Owner, ref)
  PROVE  WakeInv(Owner)
  <1>1. cref = ref /\ synced = Keys /\ queue = Keys /\ cstat = stat /\ cur = None
    BY DEF PInit, Init
  <1> QED
    BY <1>1, NoneAssumption DEF WakeInv, Apart, Mapped, InHand, Settled, Copied

LEMMA StartWakes ==
  ASSUME NEW CONSTANT Owner, PTypeOK, PassOK, WakeInv(Owner),
         NEW j \in Keys, Start(j), UNCHANGED cstat
  PROVE  WakeInv(Owner)'
  <1> USE DEF objects, secrets
  <1>1. /\ queue' = queue \ {j} /\ cur' = j /\ cur = None /\ target' = cref[j]
        /\ fresh' = (j \in synced)
        /\ UNCHANGED <<ref, cref, synced, stat, scache, notify, cstat>>
    BY DEF Start, PassOK
  <1>2. cref \in [Keys -> Secrets \cup {None}]
    BY DEF PTypeOK, TypeOK
  <1>3. Apart(Owner, cref)'
    BY <1>1 DEF WakeInv, Apart
  <1>4. \A s : Says(s)' = Says(s) /\ Told(s)' = Told(s)
    BY <1>1 DEF Says, Told
  <1>5. ASSUME NEW k \in Keys PROVE Mapped(k)'
    <2>1. CASE cref[k] = None \/ k \in queue'
      BY <1>1, <2>1 DEF Mapped
    <2>2. CASE cref[k] # None /\ k \notin queue'
      <3>1. CASE k = j
        BY <1>1, <1>2, <2>2, <3>1 DEF Start, Remember, Mapped
      <3>2. CASE k # j
        <4>1. ReferencedSecrets[cref[k]] = k /\ cref[k] \in Secrets
          BY <1>1, <1>2, <2>2, <3>2 DEF WakeInv, Mapped
        <4>2. cref[j] # None => cref[k] # cref[j]
          BY <2>2, <3>2 DEF WakeInv, Apart
        <4>3. ReferencedSecrets'[cref[k]] = k
          BY <3>2, <4>1, <4>2 DEF Start, Remember
        <4> QED
          BY <1>1, <4>3 DEF Mapped
      <3> QED
        BY <3>1, <3>2
    <2> QED
      BY <2>1, <2>2
  <1>6. ASSUME NEW k \in Keys PROVE InHand(k)'
    <2>1. cur' = k /\ pc' = "set" => verdict' = Says(target)'
      BY <1>1 DEF Start, Says
    <2> QED
      BY <1>1, <2>1 DEF InHand
  <1>7. ASSUME NEW k \in Keys PROVE Settled(k)' /\ Copied(k)'
    BY <1>1, <1>4, NoneAssumption DEF WakeInv, Settled, Copied
  <1> QED
    BY <1>3, <1>5, <1>6, <1>7 DEF WakeInv

LEMMA ReadWakes ==
  ASSUME NEW CONSTANT Owner, PTypeOK, PassOK, WakeInv(Owner), ReadSecret, UNCHANGED cstat
  PROVE  WakeInv(Owner)'
  <1> USE DEF objects, secrets
  <1>1. /\ verdict' = Says(target) /\ target # None
        /\ UNCHANGED <<ref, cref, synced, stat, scache, notify, cstat, ReferencedSecrets,
                       queue, cur, target, fresh>>
    BY DEF ReadSecret, Says, PassOK
  <1>2. \A s : Says(s)' = Says(s) /\ Told(s)' = Told(s)
    BY <1>1 DEF Says, Told
  <1> QED
    BY <1>1, <1>2 DEF WakeInv, Apart, Mapped, InHand, Settled, Copied

LEMMA SetWakes ==
  ASSUME NEW CONSTANT Owner, PTypeOK, PassOK, WakeInv(Owner), SetStatus, UNCHANGED cstat
  PROVE  WakeInv(Owner)'
  <1> USE DEF secrets
  <1>1. /\ cur \in Keys /\ cur' = None /\ pc = "set"
        /\ UNCHANGED <<ref, cref, scache, notify, cstat, ReferencedSecrets>>
    BY DEF SetStatus, EndPass, PassOK, PTypeOK, TypeOK
  <1>2. \A s : Says(s)' = Says(s) /\ Told(s)' = Told(s)
    BY <1>1 DEF Says, Told
  <1>3. stat \in [Keys -> Reasons]
    BY DEF PTypeOK, TypeOK
  <1>4. Apart(Owner, cref)' /\ \A k \in Keys : InHand(k)'
    BY <1>1, NoneAssumption DEF WakeInv, Apart, InHand
  <1>5. CASE /\ fresh /\ stat' = [stat EXCEPT ![cur] = verdict] /\ UNCHANGED queue
             /\ synced' = synced \ {cur}
    BY <1>1, <1>2, <1>3, <1>4, <1>5 DEF WakeInv, Mapped, Settled, Copied
  <1>6. CASE fresh /\ stat[cur] = verdict /\ UNCHANGED <<stat, queue, synced>>
    <2>1. ASSUME NEW k \in Keys PROVE Settled(k)'
      <3>1. CASE k = cur
        BY <1>1, <1>2, <1>6, <3>1 DEF WakeInv, InHand, Settled
      <3>2. CASE k # cur
        BY <1>1, <1>2, <1>6, <3>2 DEF WakeInv, Settled
      <3> QED
        BY <3>1, <3>2
    <2> QED
      BY <1>1, <1>4, <1>6, <2>1 DEF WakeInv, Mapped, Copied
  <1>7. CASE queue' = queue \cup {cur} /\ UNCHANGED <<stat, synced>>
    BY <1>1, <1>2, <1>4, <1>7 DEF WakeInv, Mapped, Settled, Copied
  <1>8. stat[cur] = verdict => [stat EXCEPT ![cur] = verdict] = stat
    BY <1>3
  <1> QED
    BY <1>5, <1>6, <1>7, <1>8 DEF SetStatus

LEMMA EndWakes ==
  ASSUME NEW CONSTANT Owner, PTypeOK, PassOK, WakeInv(Owner),
         (Abort /\ UNCHANGED cstat) \/ (Restart /\ cstat' = stat /\ Apart(Owner, ref))
  PROVE  WakeInv(Owner)'
  <1> USE DEF secrets, objects
  <1>1. CASE Abort /\ UNCHANGED cstat
    <2>1. /\ cur \in Keys /\ cur' = None /\ queue' = queue \cup {cur}
          /\ UNCHANGED <<ref, cref, scache, notify, cstat, ReferencedSecrets, stat, synced>>
      BY <1>1 DEF Abort, EndPass, PassOK, PTypeOK, TypeOK
    <2>2. \A s : Says(s)' = Says(s) /\ Told(s)' = Told(s)
      BY <2>1 DEF Says, Told
    <2> QED
      BY <2>1, <2>2, NoneAssumption DEF WakeInv, Apart, Mapped, InHand, Settled, Copied
  <1>2. CASE Restart /\ cstat' = stat /\ Apart(Owner, ref)
    <2>1. /\ cur' = None /\ queue' = Keys /\ cref' = ref /\ cstat' = stat' /\ UNCHANGED ref
      BY <1>2 DEF Restart, EndPass
    <2> QED
      BY <1>2, <2>1, NoneAssumption DEF WakeInv, Apart, Mapped, InHand, Settled, Copied
  <1> QED
    BY <1>1, <1>2

LEMMA SyncWakes ==
  ASSUME NEW CONSTANT Owner, PTypeOK, PassOK, WakeInv(Owner), Apart(Owner, ref),
         NEW j \in Keys, CacheSync(j), cstat' = [cstat EXCEPT ![j] = stat[j]]
  PROVE  WakeInv(Owner)'
  <1> USE DEF secrets
  <1>1. /\ j \notin synced /\ cref' = [cref EXCEPT ![j] = ref[j]] /\ synced' = synced \cup {j}
        /\ queue' = queue \cup {j}
        /\ UNCHANGED <<ref, stat, scache, notify, ReferencedSecrets, pc, cur, target,
                       verdict, fresh>>
    BY DEF CacheSync
  <1>2. \A s : Says(s)' = Says(s) /\ Told(s)' = Told(s)
    BY <1>1 DEF Says, Told
  <1>3. \A k \in Keys : /\ k # j => cref'[k] = cref[k] /\ cstat'[k] = cstat[k]
                        /\ cref'[j] = ref[j] /\ cstat'[j] = stat[j]
    BY <1>1 DEF PTypeOK, TypeOK
  <1>4. Apart(Owner, cref)'
    BY <1>3 DEF WakeInv, Apart
  <1>5. ASSUME NEW k \in Keys PROVE Mapped(k)' /\ InHand(k)' /\ Settled(k)' /\ Copied(k)'
    <2>1. CASE k = j
      BY <1>1, <1>3, <2>1 DEF WakeInv, Mapped, InHand, Settled, Copied
    <2>2. CASE k # j
      BY <1>1, <1>2, <1>3, <2>2 DEF WakeInv, Mapped, InHand, Settled, Copied
    <2> QED
      BY <2>1, <2>2
  <1> QED
    BY <1>4, <1>5 DEF WakeInv

LEMMA SecretWakes ==
  ASSUME NEW CONSTANT Owner, PTypeOK, WakeInv(Owner),
         NEW s \in Secrets, SecretSync(s) \/ MapSecret(s), UNCHANGED cstat
  PROVE  WakeInv(Owner)'
  <1> USE DEF objects
  <1>0. UNCHANGED <<ref, cref, synced, stat, cstat, ReferencedSecrets, pc, cur, target,
                    verdict, fresh>>
    BY DEF SecretSync, MapSecret
  <1>1. Apart(Owner, cref)' /\ \A k \in Keys : Copied(k)'
    BY <1>0 DEF WakeInv, Apart, Copied
  <1>2. CASE SecretSync(s)
    <2>1. /\ UNCHANGED queue /\ notify' = notify \cup {s}
          /\ \A t \in Secrets \ {s} : scache'[t] = scache[t]
      BY <1>2 DEF SecretSync, PTypeOK, TypeOK
    <2>2. \A t \in Secrets \cup {None} : /\ Told(t) => Told(t)'
                                         /\ Says(t)' # Says(t) => Told(t)'
      BY <2>1, NoneAssumption DEF Says, Told
    <2>3. target \in Secrets \cup {None} /\ \A k \in Keys : cref[k] \in Secrets \cup {None}
      BY DEF PTypeOK, TypeOK
    <2>4. ASSUME NEW k \in Keys PROVE Mapped(k)' /\ InHand(k)' /\ Settled(k)'
      BY <1>0, <2>1, <2>2, <2>3 DEF WakeInv, Mapped, InHand, Settled
    <2> QED
      BY <1>1, <2>4 DEF WakeInv
  <1>3. CASE MapSecret(s)
    <2>1. /\ queue' = queue \cup ({ReferencedSecrets[s]} \ {None})
          /\ notify' = notify \ {s} /\ UNCHANGED scache
      BY <1>3 DEF MapSecret
    <2>2. \A t : Says(t)' = Says(t) /\ (Told(t) => Told(t)' \/ t = s)
      BY <2>1 DEF Says, Told
    <2>3. ASSUME NEW k \in Keys PROVE Mapped(k)' /\ InHand(k)' /\ Settled(k)'
      <3>1. k \notin queue' => k \notin queue /\ cref[k] # s
        BY <2>1, NoneAssumption DEF WakeInv, Mapped
      <3> QED
        BY <1>0, <2>2, <3>1 DEF WakeInv, Mapped, InHand, Settled
    <2> QED
      BY <1>1, <2>3 DEF WakeInv
  <1> QED
    BY <1>2, <1>3

LEMMA UserWakes ==
  ASSUME NEW CONSTANT Owner, PTypeOK, WakeInv(Owner), UNCHANGED cstat,
         \/ \E s \in Secrets, c \in Contents : UserWritesSecret(s, c)
         \/ \E k \in Keys, s \in Secrets \cup {None} : UserChangesRef(k, s)
         \/ UserChangesProfiles
         \/ UNCHANGED vars
  PROVE  WakeInv(Owner)'
  <1>0. UNCHANGED <<cref, stat, cstat, scache, notify, ReferencedSecrets, queue, pc, cur,
                    target, verdict>>
    BY DEF UserWritesSecret, UserChangesRef, UserChangesProfiles, Event, vars
  <1>1. \A s : Says(s)' = Says(s) /\ Told(s)' = Told(s)
    BY <1>0 DEF Says, Told
  <1>2. CASE UNCHANGED <<ref, synced, fresh>>
    BY <1>0, <1>1, <1>2 DEF WakeInv, Apart, Mapped, InHand, Settled, Copied
  <1>3. ASSUME NEW j \in Keys, NEW s \in Secrets \cup {None}, UserChangesRef(j, s)
        PROVE  WakeInv(Owner)'
    <2>1. /\ synced' = synced \ {j} /\ fresh' = (fresh /\ j # cur)
          /\ \A k \in Keys : k # j => ref'[k] = ref[k]
      BY <1>3 DEF UserChangesRef, PTypeOK, TypeOK
    <2> QED
      BY <1>0, <1>1, <2>1 DEF WakeInv, Apart, Mapped, InHand, Settled, Copied
  <1> QED
    BY <1>2, <1>3 DEF UserWritesSecret, UserChangesProfiles, vars

(* As long as every Secret is for one OZSetupKey, WakeInv is inductive.    *)
LEMMA WakeStep ==
  ASSUME NEW CONSTANT Owner
  PROVE  /\ PTypeOK /\ PassOK /\ WakeInv(Owner) /\ Apart(Owner, ref)
         /\ [PNext]_pvars
         => WakeInv(Owner)'
  <1> SUFFICES ASSUME PTypeOK, PassOK, WakeInv(Owner), Apart(Owner, ref), [PNext]_pvars
               PROVE  WakeInv(Owner)'
    OBVIOUS
  <1>1. CASE PPass
    BY <1>1, StartWakes, ReadWakes, SetWakes DEF PPass
  <1>2. CASE PWatch
    BY <1>2, SecretWakes DEF PWatch
  <1>3. CASE PUser
    BY <1>3, UserWakes DEF PUser
  <1>4. CASE PRestart \/ (Abort /\ UNCHANGED <<cstat, webhook>>)
    BY <1>4, EndWakes DEF PRestart
  <1>5. CASE \E k \in Keys : PSync(k)
    BY <1>5, SyncWakes DEF PSync
  <1>6. CASE \/ \E p \in Pods : LegacyInjector(p) \/ Default(p)
             \/ UserChangesProfiles \/ UNCHANGED pvars
    BY <1>6, UserWakes DEF LegacyInjector, Default, UserChangesProfiles, pvars
  <1> QED
    BY <1>1, <1>2, <1>3, <1>4, <1>5, <1>6 DEF PNext

LEMMA WakeInvariance ==
  ASSUME NEW CONSTANT Owner
  PROVE  PSpec /\ []Apart(Owner, ref) => [](PTypeOK /\ WakeInv(Owner))
  <1>1. PSpec => [](PTypeOK /\ PassOK)
    BY PInitType, PStepType, PTL DEF PSpec
  <1>2. PInit /\ Apart(Owner, ref) => WakeInv(Owner)
    BY WakeInit
  <1> QED
    BY <1>1, <1>2, WakeStep, PTL DEF PSpec

LEMMA WakeEnough ==
  ASSUME NEW CONSTANT Owner, WakeInv(Owner), NEW k \in Keys, ~Pending(k)
  PROVE  /\ cref[k] = ref[k] /\ cstat[k] = stat[k] /\ stat[k] = Correct(k)
  <1>1. k \notin queue /\ cur # k /\ k \in synced
    BY DEF Pending
  <1>2. cref[k] = ref[k] /\ cstat[k] = stat[k]
    BY <1>1 DEF WakeInv, Copied
  <1>3. ~Told(cref[k]) /\ Says(cref[k]) = Correct(k)
    BY <1>2 DEF Pending, Told, Says, Correct
  <1> QED
    BY <1>1, <1>2, <1>3 DEF WakeInv, Settled

(* "Trigger reconciliation when a referenced secret changes": for every    *)
(* number of OZSetupKeys and Secrets, as long as a Secret is only ever     *)
(* named by one OZSetupKey, none misses a change of its Secret or of its   *)
(* reference, whatever falls between the map update, the read of the       *)
(* Secret and the status write, and whatever fails or restarts.            *)
THEOREM WakeupsKept ==
  ASSUME NEW CONSTANT Owner
  PROVE  PSpec /\ []Apart(Owner, ref) => []NoLostWakeup
  <1>1. WakeInv(Owner) => NoLostWakeup
    BY WakeEnough DEF NoLostWakeup
  <1> QED
    BY <1>1, WakeInvariance, PTL

LEMMA AdmissionEnough ==
  ASSUME NEW CONSTANT Owner, PTypeOK, WakeInv(Owner), NEW p \in Pods, LegacyInjector(p)
  PROVE  secret[cref[Key[p]]] = "good" \/ Pending(Key[p])
  <1> SUFFICES ASSUME ~Pending(Key[p]) PROVE secret[cref[Key[p]]] = "good"
    OBVIOUS
  <1>1. Key[p] \in Keys /\ cstat[Key[p]] = "True" /\ cref[Key[p]] # None
    BY PodsAssumption DEF LegacyInjector
  <1> DEFINE k == Key[p]
  <1>2. cref[k] = ref[k] /\ Correct(k) = "True" /\ ref[k] \in Secrets
    BY <1>1, WakeEnough DEF PTypeOK, TypeOK
  <1>3. Verdict(secret[ref[k]]) = "True" /\ secret[ref[k]] \in Contents
    BY <1>1, <1>2 DEF Correct, PTypeOK, TypeOK
  <1> QED
    BY <1>2, <1>3 DEF Verdict, Contents

(* legacyInjector trusts the condition and the reference of the informer's *)
(* copy: a Pod that it lets in has a Secret with a setup key, or a change  *)
(* is on its way to the controller that would say otherwise.               *)
THEOREM PodsAdmittedWithKey ==
  ASSUME NEW CONSTANT Owner
  PROVE  PSpec /\ []Apart(Owner, ref) => AdmittedWithKey
  <1>1. PTypeOK /\ WakeInv(Owner) =>
          \A p \in Pods : LegacyInjector(p) =>
            secret[cref[Key[p]]] = "good" \/ Pending(Key[p])
    BY AdmissionEnough
  <1> QED
    BY <1>1, WakeInvariance, PTL DEF AdmittedWithKey

(* A lone OZSetupKey needs no such care: all Secrets are for it.           *)
THEOREM LoneKeyWakes ==
  ASSUME \A j, k \in Keys : j = k
  PROVE  PSpec => []NoLostWakeup /\ AdmittedWithKey
  <1> DEFINE Owner == [s \in Secrets |-> CHOOSE k : k \in Keys]
  <1>1. PTypeOK => Apart(Owner, ref)
    <2> SUFFICES ASSUME PTypeOK, NEW k \in Keys, ref[k] # None PROVE Owner[ref[k]] = k
      BY DEF Apart
    <2>1. ref[k] \in Secrets
      BY DEF PTypeOK, TypeOK
    <2>2. (CHOOSE x : x \in Keys) \in Keys
      BY Zenon
    <2> QED
      BY <2>1, <2>2
  <1> HIDE DEF Owner
  <1>2. PInit => PTypeOK /\ PassOK /\ WakeInv(Owner)
    BY <1>1, PInitType, WakeInit
  <1>3. PTypeOK /\ PassOK /\ WakeInv(Owner) /\ [PNext]_pvars
        => (PTypeOK /\ PassOK /\ WakeInv(Owner))'
    BY <1>1, PStepType, WakeStep
  <1>4. WakeInv(Owner) => NoLostWakeup
    BY WakeEnough DEF NoLostWakeup
  <1>5. PTypeOK /\ WakeInv(Owner) =>
          \A p \in Pods : LegacyInjector(p) =>
            secret[cref[Key[p]]] = "good" \/ Pending(Key[p])
    BY AdmissionEnough
  <1> QED
    BY <1>2, <1>3, <1>4, <1>5, PTL DEF PSpec, AdmittedWithKey

-----------------------------------------------------------------------------
(* OZGroup: types.                                                         *)
(* The object literals are objects, and Kubernetes' removal of an object   *)
(* without finalizers keeps it one.                                        *)
LEMMA LiteralObjects == G!Absent \in G!Objects /\ G!Created \in G!Objects
  BY DEF G!Absent, G!Created, G!Objects, G!Finalizers

LEMMA ReapType == ASSUME NEW o \in G!Objects PROVE G!Reap(o) \in G!Objects
  BY DEF G!Reap, G!Objects

(* A write of the running pass, or of somebody else, keeps the types of    *)
(* the API's objects.                                                      *)
LEMMA WriteCurrentType ==
  ASSUME G!TypeOK, NEW o, gcur \in Groups => o \in G!Objects, G!WriteCurrent(o)
  PROVE  api' \in [Groups -> G!Objects] /\ gsynced' \subseteq Groups
  BY ReapType DEF G!TypeOK, G!WriteCurrent

LEMMA WriteType ==
  ASSUME G!TypeOK, NEW g \in Groups, NEW o \in G!Objects, G!Write(g, o)
  PROVE  /\ api' \in [Groups -> G!Objects] /\ gsynced' \subseteq Groups
         /\ gfresh' \in BOOLEAN
         /\ UNCHANGED <<cache, G!upstream, gpc, gcur, loc, lapses>>
  BY ReapType DEF G!TypeOK, G!Write

(* The initial state has the right types.                                  *)
LEMMA GroupInitType == GroupBounds /\ G!Init => G!TypeOK
  <1> SUFFICES ASSUME GroupBounds, G!Init PROVE G!TypeOK
    OBVIOUS
  <1> USE DEF GroupBounds, G!Init
  <1>1. api \in [Groups -> G!Objects] /\ cache \in [Groups -> G!Objects] /\ loc \in G!Objects
    BY LiteralObjects
  <1>2. /\ gsynced \subseteq Groups /\ owned \subseteq Groups /\ late \subseteq Groups
        /\ linked \subseteq Ids /\ byAdmin \subseteq Ids
        /\ up \in [Ids -> {"unused", "live", "gone"}]
    OBVIOUS
  <1>3. gpc = "idle" /\ gcur \in Groups \cup {NoGroup} /\ gfresh \in BOOLEAN
    OBVIOUS
  <1>4. lapses \in 0..MaxLapses /\ gevents \in 0..MaxGroupEvents
    OBVIOUS
  <1> QED
    BY <1>1, <1>2, <1>3, <1>4 DEF G!TypeOK

(* Every step keeps the types.                                             *)
LEMMA GroupStepType == GroupBounds /\ G!TypeOK /\ [G!Next]_G!vars => G!TypeOK'
  <1> SUFFICES ASSUME GroupBounds, G!TypeOK, [G!Next]_G!vars PROVE G!TypeOK'
    OBVIOUS
  <1> USE LiteralObjects DEF GroupBounds, G!EndPass, G!Goto, G!k8s, G!upstream
  <1>1. CASE \E g \in Groups : G!Start(g)
    BY <1>1 DEF G!Start, G!TypeOK
  <1>2. CASE G!ListGroups
    <2>1. loc' \in G!Objects /\ gpc' \in {"create", "save"} /\ UNCHANGED <<gcur, gfresh>>
      BY <1>2 DEF G!ListGroups, G!TypeOK, G!Objects, G!Live
    <2> QED
      BY <1>2, <2>1 DEF G!ListGroups, G!TypeOK
  <1>3. CASE G!CreateGroup
    <2>1. loc' \in G!Objects /\ up' \in [Ids -> {"unused", "live", "gone"}]
      BY <1>3 DEF G!CreateGroup, G!TypeOK, G!Objects
    <2> QED
      BY <1>3, <2>1 DEF G!CreateGroup, G!TypeOK
  <1>4. CASE G!SaveStatus
    <2>1. gcur \in Groups => [api[gcur] EXCEPT !.gid = loc.gid] \in G!Objects
      BY DEF G!TypeOK, G!Objects
    <2>2. api' \in [Groups -> G!Objects] /\ gsynced' \subseteq Groups
      BY <1>4, <2>1, WriteCurrentType DEF G!SaveStatus
    <2> QED
      BY <1>4, <2>2 DEF G!SaveStatus, G!TypeOK
  <1>5. CASE G!DeleteGroup
    BY <1>5 DEF G!DeleteGroup, G!TypeOK
  <1>6. CASE G!CheckOthers
    BY <1>6 DEF G!CheckOthers, G!TypeOK
  <1>7. CASE G!DropFinalizer
    <2>1. gcur \in Groups => [api[gcur] EXCEPT !.fins = @ \ {"group"}] \in G!Objects
      BY DEF G!TypeOK, G!Objects
    <2>2. api' \in [Groups -> G!Objects] /\ gsynced' \subseteq Groups
      BY <1>7, <2>1, WriteCurrentType DEF G!DropFinalizer
    <2> QED
      BY <1>7, <2>2 DEF G!DropFinalizer, G!TypeOK
  <1>8. CASE G!Abort
    <2>1. lapses' \in 0..MaxLapses
      BY <1>8 DEF G!Abort, G!TypeOK
    <2> QED
      BY <1>8, <2>1 DEF G!Abort, G!TypeOK
  <1>9. ASSUME NEW g \in Groups, G!CacheSync(g) \/ G!Minute(g) PROVE G!TypeOK'
    BY <1>9 DEF G!CacheSync, G!Minute, G!TypeOK
  <1>10. ASSUME NEW g \in Groups, G!OwnerCreates(g) PROVE G!TypeOK'
    BY <1>10, WriteType DEF G!OwnerCreates, G!TypeOK
  <1>11. ASSUME NEW g \in Groups, G!OwnerReleases(g) PROVE G!TypeOK'
    <2>1. [api[g] EXCEPT !.fins = @ \ {"owner"}] \in G!Objects
      BY DEF G!TypeOK, G!Objects
    <2> QED
      BY <1>11, <2>1, WriteType DEF G!OwnerReleases, G!TypeOK
  <1>12. ASSUME NEW g \in Groups, G!UserDelete(g) \/ G!Collect(g) PROVE G!TypeOK'
    <2>1. [api[g] EXCEPT !.phase = "deleting"] \in G!Objects
      BY DEF G!TypeOK, G!Objects
    <2>2. gevents' \in 0..MaxGroupEvents
      BY <1>12 DEF G!UserDelete, G!Collect, G!Event, G!TypeOK
    <2> QED
      BY <1>12, <2>1, <2>2, WriteType DEF G!UserDelete, G!Collect, G!Delete, G!TypeOK
  <1>13. ASSUME NEW i \in Ids, G!Link(i) \/ G!AdminDelete(i) \/ G!AdminCreate(i)
         PROVE  G!TypeOK'
    BY <1>13 DEF G!Link, G!AdminDelete, G!AdminCreate, G!Event, G!TypeOK
  <1>14. CASE G!Done \/ UNCHANGED G!vars
    BY <1>14 DEF G!Done, G!vars, G!TypeOK
  <1> QED
    BY <1>1, <1>2, <1>3, <1>4, <1>5, <1>6, <1>7, <1>8, <1>9, <1>10, <1>11,
       <1>12, <1>13, <1>14 DEF G!Next, G!Work, G!Environment

(* Type correctness of the OZGroup controller's passes and writes.         *)
THEOREM GroupTypeCorrect ==
  ASSUME GroupBounds
  PROVE  G!Spec => []G!TypeOK
  <1>1. G!Init => G!TypeOK
    BY GroupInitType
  <1>2. G!TypeOK /\ [G!Next]_G!vars => G!TypeOK'
    BY GroupStepType
  <1> QED
    BY <1>1, <1>2, PTL DEF G!Spec

-----------------------------------------------------------------------------
(* The operator's groups upstream.                                         *)
Operators == G!Live \ byAdmin

(* There is at most one of them, and none while a pass that found no group *)
(* of the name is about to create one: with one worker nobody but an       *)
(* administrator can create a group between Groups.List and Groups.Create. *)
AtMostOne == \A i, j \in Operators : i = j
NoneBeforeCreate == gpc = "create" => Operators = {}

DupInv == G!TypeOK /\ AtMostOne /\ NoneBeforeCreate

(* Every step keeps DupInv: only CreateGroup adds an operator's group.     *)
LEMMA StepDup == GroupBounds /\ DupInv /\ [G!Next]_G!vars => DupInv'
  <1> SUFFICES ASSUME GroupBounds, DupInv, [G!Next]_G!vars
               PROVE  AtMostOne' /\ NoneBeforeCreate'
    BY GroupStepType DEF DupInv
  <1> USE DEF DupInv, G!TypeOK, AtMostOne, NoneBeforeCreate, Operators, G!Live,
              G!k8s, G!upstream, G!EndPass, G!Goto
  <1>1. CASE \E g \in Groups : G!Start(g)
    BY <1>1 DEF G!Start
  <1>2. CASE G!ListGroups
    BY <1>2 DEF G!ListGroups
  <1>3. CASE G!CreateGroup
    BY <1>3 DEF G!CreateGroup
  <1>4. CASE G!SaveStatus \/ G!DropFinalizer \/ G!CheckOthers \/ G!Abort
    BY <1>4 DEF G!SaveStatus, G!DropFinalizer, G!CheckOthers, G!Abort
  <1>5. CASE G!DeleteGroup
    BY <1>5 DEF G!DeleteGroup
  <1>6. CASE \E g \in Groups : \/ G!CacheSync(g) \/ G!OwnerCreates(g)
                               \/ G!OwnerReleases(g) \/ G!UserDelete(g)
                               \/ G!Collect(g) \/ G!Minute(g)
    BY <1>6 DEF G!CacheSync, G!OwnerCreates, G!OwnerReleases, G!UserDelete, G!Collect,
                G!Minute, G!Delete, G!Write
  <1>7. CASE \E i \in Ids : G!Link(i) \/ G!AdminDelete(i) \/ G!AdminCreate(i)
    BY <1>7 DEF G!Link, G!AdminDelete, G!AdminCreate
  <1>8. CASE G!Done \/ UNCHANGED G!vars
    BY <1>8 DEF G!Done, G!vars
  <1> QED
    BY <1>1, <1>2, <1>3, <1>4, <1>5, <1>6, <1>7, <1>8
    DEF G!Next, G!Work, G!Environment

(* However passes are cut off after Groups.Create and whatever the caches  *)
(* show, the OZGroups of one name never have two groups of the operator    *)
(* upstream ("ensure no group duplication").                               *)
THEOREM NoDuplicateGroups ==
  ASSUME GroupBounds
  PROVE  G!Spec => []G!NoDuplicate
  <1>1. G!Init => DupInv
    BY GroupInitType DEF G!Init, DupInv, AtMostOne, NoneBeforeCreate, Operators, G!Live
  <1>2. DupInv => G!NoDuplicate
    BY DEF DupInv, AtMostOne, Operators, G!NoDuplicate
  <1>3. DupInv /\ [G!Next]_G!vars => DupInv'
    BY StepDup
  <1> QED
    BY <1>1, <1>2, <1>3, PTL DEF G!Spec
=============================================================================
