-------------------------------- MODULE PeerInbox --------------------------------
(***************************************************************************)
(* The inbox of a session for messages of other local sessions             *)
(* (peer_runtime.py): the server thread accepts them one at a time, the    *)
(* main thread collects them, decides on held ones and changes the settings *)
(* both look at.                                                           *)
(*                                                                         *)
(* The lock protects the queues.  The settings are assigned without it, one *)
(* after the other, and the server reads them, one after the other, with it. *)
(***************************************************************************)
EXTENDS Integers, Sequences, FiniteSets

CONSTANTS
    Senders,       \* other sessions; each sends one text again and again
    Bypassing,     \* those that bypass permission prompts
    MaxDelivered,  \* MAX_DELIVERED_MESSAGES
    MaxHeld        \* MAX_HELD_MESSAGES

\* Assumed wherever the module is instantiated.
PeerAssumption ==
    /\ Bypassing \subseteq Senders
    /\ MaxDelivered \in Nat \ {0}
    /\ MaxHeld \in Nat \ {0}

VARIABLES
    explicit,   \* _explicit_inbound
    bypasses,   \* the approval policy bypasses permission prompts
    delivered,  \* _delivered, oldest first
    held,       \* _held, oldest first
    recent,     \* senders whose text is in the window of duplicates
    serving,    \* the message in _accept_message, and the setting it has read
    changing    \* how far the main thread is with a change of the settings

peerVars == <<explicit, bypasses, delivered, held, recent, serving, changing>>

Modes == {"accept", "hold", "refuse"}
Nothing == [at |-> "idle", from |-> {}, explicit |-> "none"]

PeerTypeOK ==
    /\ explicit \in Modes \cup {"none"}
    /\ bypasses \in BOOLEAN
    /\ delivered \in Seq(Senders) /\ Len(delivered) <= MaxDelivered
    /\ held \in Seq(Senders) /\ Len(held) <= MaxHeld
    /\ recent \subseteq Senders
    /\ serving \in [at : {"idle", "mode"}, from : SUBSET Senders, explicit : Modes \cup {"none"}]
    /\ changing \in {"nothing", "inbound", "release"}

PeerInit ==
    /\ explicit \in Modes \cup {"none"}
    /\ bypasses \in BOOLEAN
    /\ delivered = <<>>
    /\ held = <<>>
    /\ recent = {}
    /\ serving = Nothing
    /\ changing = "nothing"

\* deque(maxlen): the oldest go when more come.
Put(queue, new, max) ==
    LET all == queue \o new
    IN  IF Len(all) <= max THEN all ELSE SubSeq(all, Len(all) - max + 1, Len(all))

\* The members of a queue at some places, in their order.
InOrder(places) ==
    {f \in [1 .. Cardinality(places) -> places] : \A i, j \in DOMAIN f : i < j => f[i] < f[j]}
Picked(queue, f) == [i \in DOMAIN f |-> queue[f[i]]]

\* _inbound_mode
Mode(setting, bypassing, s) ==
    IF setting # "none" THEN setting
    ELSE IF bypassing = (s \in Bypassing) THEN "accept" ELSE "hold"

\* _accept_message holds the lock from the check for a duplicate to its end.
AcceptLockFree_Ignored == TRUE
AcceptLockFree == serving.at = "idle"

-----------------------------------------------------------------------------
(* The server thread *)

\* A duplicate is refused with no change of its own.
Arrives(s) ==
    /\ AcceptLockFree
    /\ s \notin recent
    /\ recent' = recent \cup {s}
    /\ serving' = [at |-> "mode", from |-> {s}, explicit |-> explicit]
    /\ UNCHANGED <<explicit, bypasses, delivered, held, changing>>

\* A message the settings refuse leaves the queues alone.
Queues(s) ==
    LET mode == Mode(serving.explicit, bypasses, s)
    IN  /\ serving.at = "mode"
        /\ serving.from = {s}
        /\ delivered' = IF mode = "accept" THEN Put(delivered, <<s>>, MaxDelivered) ELSE delivered
        /\ held' = IF mode = "hold" THEN Put(held, <<s>>, MaxHeld) ELSE held
        /\ serving' = Nothing
        /\ UNCHANGED <<explicit, bypasses, recent, changing>>

\* DUPLICATE_WINDOW_SECONDS pass.
Expires(s) ==
    /\ AcceptLockFree
    /\ s \in recent
    /\ recent' = recent \ {s}
    /\ UNCHANGED <<explicit, bypasses, delivered, held, serving, changing>>

-----------------------------------------------------------------------------
(* The main thread *)

Collects ==
    /\ AcceptLockFree
    /\ changing = "nothing"
    /\ delivered # <<>>
    /\ delivered' = <<>>
    /\ UNCHANGED <<explicit, bypasses, held, recent, serving, changing>>

\* decide_held for all senders or one.
DecidesHeld(accept, who) ==
    LET decided == {i \in DOMAIN held : held[i] \in who}
    IN  /\ AcceptLockFree
        /\ changing = "nothing"
        /\ decided # {}
        /\ \E f \in InOrder(decided) :
              delivered' = IF accept THEN Put(delivered, Picked(held, f), MaxDelivered) ELSE delivered
        /\ \E f \in InOrder(DOMAIN held \ decided) : held' = Picked(held, f)
        /\ UNCHANGED <<explicit, bypasses, recent, serving, changing>>

\* update_workspace goes on with the inbound setting, update_approval_policy with
\* the held messages.
ChangesPolicy(new, next) ==
    /\ changing = "nothing"
    /\ bypasses' = new
    /\ changing' = next
    /\ UNCHANGED <<explicit, delivered, held, recent, serving>>

ChangesInbound(new) ==
    /\ changing = "inbound"
    /\ explicit' = new
    /\ changing' = "release"
    /\ UNCHANGED <<bypasses, delivered, held, recent, serving>>

\* _release_held_if_allowed
Releases ==
    LET places(mode) == {i \in DOMAIN held : Mode(explicit, bypasses, held[i]) = mode}
    IN  /\ AcceptLockFree
        /\ changing = "release"
        /\ \E f \in InOrder(places("accept")) : delivered' = Put(delivered, Picked(held, f), MaxDelivered)
        /\ \E f \in InOrder(places("hold")) : held' = Picked(held, f)
        /\ changing' = "nothing"
        /\ UNCHANGED <<explicit, bypasses, recent, serving>>

PeerNext ==
    \/ \E s \in Senders : Arrives(s) \/ Queues(s) \/ Expires(s)
    \/ Collects \/ Releases
    \/ \E accept \in BOOLEAN, who \in {{s} : s \in Senders} \cup {Senders} : DecidesHeld(accept, who)
    \/ \E new \in BOOLEAN, next \in {"inbound", "release"} : ChangesPolicy(new, next)
    \/ \E new \in Modes \cup {"none"} : ChangesInbound(new)

PeerSpec == PeerInit /\ [][PeerNext]_peerVars

-----------------------------------------------------------------------------
(* Properties *)

\* Once a change of the settings is through, whatever arrived during it: a message is
\* held only if the settings hold it.  Nothing would look at it again before the
\* next change.
HeldBySettings ==
    changing = "nothing" =>
        \A i \in DOMAIN held : Mode(explicit, bypasses, held[i]) = "hold"
=============================================================================
