----------------------------- MODULE MCUsageHold -----------------------------
(* Instance of UsageHold: one owner whose signup grant pays for one hold but  *)
(* not for two, two chat turns, one of them with a model call and one with an *)
(* embedding for the share cache, and a turn that places no hold.             *)
EXTENDS UsageHold

LOCAL INSTANCE FiniteSetsExt

CONSTANTS u1, chat1, chat2, relay, llm, embed, job

MCCall == {llm, embed}
MCTurnOf == [c \in MCCall |-> CASE c = llm -> chat1 [] c = embed -> chat2]

Grant == [kind |-> "signup_grant", of |-> u1]
Hold(t) == [kind |-> "usage_hold", of |-> t]
Release(t) == [kind |-> "usage_hold_release", of |-> t]
Debit(c) == [kind |-> "usage_debit", of |-> c]

MCKey == {Grant} \cup {Hold(t) : t \in {chat1, chat2}} \cup {Release(t) : t \in {chat1, chat2}}
                 \cup {Debit(c) : c \in MCCall}
MCOwnerOf == [k \in MCKey |-> u1]
MCAmountOf == [k \in MCKey |->
    CASE k.kind = "signup_grant" -> 4
      [] k.kind = "usage_hold" -> -3
      [] k.kind = "usage_hold_release" -> 3
      [] k.kind = "usage_debit" -> IF k.of = llm THEN -2 ELSE -1]
MCTotal == [K \in SUBSET MCKey |-> MapThenSumSet(LAMBDA k : MCAmountOf[k], K)]
MCProc == {chat1, chat2, relay, job} \cup MCCall
MCPayerOf == [t \in {chat1, chat2, relay} |-> u1]
MCGrantKey == [u \in {u1} |-> Grant]
MCHoldKey == [t \in {chat1, chat2} |-> Hold(t)]
MCReleaseKey == [t \in {chat1, chat2} |-> Release(t)]
MCDebitKey == [c \in MCCall |-> Debit(c)]
==============================================================================
