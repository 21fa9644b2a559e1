----------------------------- MODULE PodWebhook -----------------------------
(***************************************************************************)
(* The mutating webhook for Pods (pod_webhook.go) over the OZSetupKey      *)
(* controller, whose verdict it relies on.  It sees a Pod once, when it is *)
(* created: an error refuses the Pod, and whoever wanted it tries again.   *)
(* A Pod with the setup-key annotation gets the client with the Secret of  *)
(* that OZSetupKey; any other Pod that a SidecarProfile selects gets it    *)
(* with the Secret of the profile's SetupKey.                              *)
(***************************************************************************)
EXTENDS OZSetupKey

CONSTANTS
    Pods,          \* Pods that someone wants to run
    Key,           \* per Pod: the OZSetupKey its annotation names, or None
    Annotated,     \* the Pods that have annotations
    Profiles,      \* SidecarProfiles, numbered in the order of their names
    Selects,       \* per profile: the Pods its selector matches
    SetupKeyRef,   \* per profile: its SetupKey
    SetupKeys

ASSUME PodsAssumption ==
    /\ Key \in [Pods -> Keys \cup {None}]
    /\ {p \in Pods : Key[p] # None} \subseteq Annotated
    /\ Annotated \subseteq Pods
ASSUME ProfilesAssumption ==
    /\ Profiles \subseteq Nat
    /\ Selects \in [Profiles -> SUBSET Pods]
    /\ SetupKeyRef \in [Profiles -> SetupKeys]

VARIABLES
    cstat,      \* the informer's copy of the OZSetupKeys' condition
    profiles,   \* SidecarProfiles that exist
    setupKeys,  \* SetupKeys that exist
    pod         \* what has become of every Pod

webhook == <<profiles, setupKeys, pod>>
pvars == <<vars, cstat, webhook>>

-----------------------------------------------------------------------------
(* A Pod is wanted, runs as it was written, or runs with the client, whose *)
(* key comes from a Secret of that name.                                   *)
Wanted == [st |-> "wanted", secret |-> None]
Plain == [st |-> "plain", secret |-> None]
Injected(s) == [st |-> "injected", secret |-> s]

PTypeOK ==
    /\ TypeOK
    /\ cstat \in [Keys -> Reasons]
    /\ profiles \subseteq Profiles
    /\ setupKeys \subseteq SetupKeys
    /\ pod \in [Pods -> {Wanted, Plain} \cup {Injected(s) : s \in Secrets \cup SetupKeys}]

PInit ==
    /\ Init
    /\ cstat = stat
    /\ profiles = Profiles
    /\ setupKeys = SetupKeys
    /\ pod = [p \in Pods |-> Wanted]

-----------------------------------------------------------------------------
(* Mutant: the condition is not looked at.                                 *)
LegacyInjectorUnready(p) ==
    /\ Key[p] # None
    /\ pod[p] = Wanted
    /\ cref[Key[p]] # None
    /\ pod' = [pod EXCEPT ![p] = Injected(cref[Key[p]])]
    /\ UNCHANGED <<vars, cstat, profiles, setupKeys>>

(* legacyInjector: the OZSetupKey must be ready as far as the informer     *)
(* knows.  A Pod without the name of a Secret is refused by the API.       *)
LegacyInjector(p) ==
    /\ Key[p] # None
    /\ pod[p] = Wanted
    /\ cstat[Key[p]] = "True"
    /\ cref[Key[p]] # None
    /\ pod' = [pod EXCEPT ![p] = Injected(cref[Key[p]])]
    /\ UNCHANGED <<vars, cstat, profiles, setupKeys>>

Matching(p) == {q \in profiles : p \in Selects[q]}

(* The profile that counts: the first in the order of names.               *)
First(p) == CHOOSE q \in Matching(p) : \A o \in Matching(p) : q <= o

(* Mutant: the SetupKey is not looked up.                                  *)
DefaultWithoutKey(p) ==
    /\ Key[p] = None
    /\ pod[p] = Wanted
    /\ \/ Matching(p) = {} /\ pod' = [pod EXCEPT ![p] = Plain]
       \/ /\ Matching(p) # {} /\ p \in Annotated
          /\ pod' = [pod EXCEPT ![p] = Injected(None)]
    /\ UNCHANGED <<vars, cstat, profiles, setupKeys>>

(* Mutant: the SetupKeys of all profiles that match have to exist.         *)
DefaultEveryKey(p) ==
    /\ Key[p] = None
    /\ pod[p] = Wanted
    /\ \/ Matching(p) = {} /\ pod' = [pod EXCEPT ![p] = Plain]
       \/ /\ Matching(p) # {}
          /\ \A q \in Matching(p) : SetupKeyRef[q] \in setupKeys
          /\ p \in Annotated
          /\ pod' = [pod EXCEPT ![p] = Injected(SetupKeyRef[First(p)])]
    /\ UNCHANGED <<vars, cstat, profiles, setupKeys>>

(* Default.  A Pod no profile selects is left as it is.  The SetupKey must *)
(* exist, its key need not be there yet.  The last step writes into the    *)
(* Pod's annotations: without any it panics, which refuses the Pod.        *)
Default(p) ==
    /\ Key[p] = None
    /\ pod[p] = Wanted
    /\ \/ Matching(p) = {} /\ pod' = [pod EXCEPT ![p] = Plain]
       \/ /\ Matching(p) # {}
          /\ SetupKeyRef[First(p)] \in setupKeys
          /\ p \in Annotated
          /\ pod' = [pod EXCEPT ![p] = Injected(SetupKeyRef[First(p)])]
    /\ UNCHANGED <<vars, cstat, profiles, setupKeys>>

(* Profiles and SetupKeys come and go.                                     *)
UserChangesProfiles ==
    /\ Event
    /\ \/ \E q \in Profiles : /\ profiles' = IF q \in profiles THEN profiles \ {q}
                                             ELSE profiles \cup {q}
                              /\ UNCHANGED setupKeys
       \/ \E k \in SetupKeys : /\ setupKeys' = IF k \in setupKeys THEN setupKeys \ {k}
                                               ELSE setupKeys \cup {k}
                               /\ UNCHANGED profiles
    /\ UNCHANGED <<ref, synced, secret, fresh, cstat, pod>>

-----------------------------------------------------------------------------
(* The OZSetupKey controller, the informer carrying the status along.      *)
PSync(k) == CacheSync(k) /\ cstat' = [cstat EXCEPT ![k] = stat[k]] /\ UNCHANGED webhook
PRestart == Restart /\ cstat' = stat /\ UNCHANGED webhook
PPass == /\ (\E k \in Keys : Start(k)) \/ ReadSecret \/ SetStatus
         /\ UNCHANGED <<cstat, webhook>>
PWatch == /\ \E s \in Secrets : SecretSync(s) \/ MapSecret(s)
          /\ UNCHANGED <<cstat, webhook>>
PUser == /\ \/ \E s \in Secrets, c \in Contents : UserWritesSecret(s, c)
            \/ \E k \in Keys, s \in Secrets \cup {None} : UserChangesRef(k, s)
         /\ UNCHANGED <<cstat, webhook>>

PNext == \/ PPass \/ PWatch \/ PUser \/ PRestart
         \/ (Abort /\ UNCHANGED <<cstat, webhook>>)
         \/ \E k \in Keys : PSync(k)
         \/ \E p \in Pods : LegacyInjector(p) \/ Default(p)
         \/ UserChangesProfiles

(* Workers and informers make progress, and a Pod is tried again.          *)
PFairness == /\ WF_pvars(PPass) /\ WF_pvars(PWatch)
             /\ \A k \in Keys : WF_pvars(PSync(k))
             /\ \A p \in Pods : WF_pvars(LegacyInjector(p) \/ Default(p))

PSpec == PInit /\ [][PNext]_pvars /\ PFairness

-----------------------------------------------------------------------------
(* Properties.                                                             *)

(* A Pod is let in with the Secret of an OZSetupKey only if that Secret    *)
(* holds a setup key, or a change of it or of the reference has still to   *)
(* reach the controller: a verdict that is stale for good admits nothing.  *)
AdmittedWithKey ==
    [][\A p \in Pods : LegacyInjector(p) =>
         secret[cref[Key[p]]] = "good" \/ Pending(Key[p])]_pvars

Blocked(p) == IF Key[p] # None THEN Correct(Key[p]) # "True"
              ELSE /\ Matching(p) # {}
                   /\ SetupKeyRef[First(p)] \notin setupKeys \/ p \notin Annotated

(* Once users and failures stop, a Pod that is still refused lacks its     *)
(* key, or has no annotations although a profile selects it.               *)
EventuallyAdmitted == <>[](\A p \in Pods : pod[p] = Wanted => Blocked(p))
=============================================================================
