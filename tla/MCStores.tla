------------------------------ MODULE MCStores ------------------------------
(* Instances of the session stores and of the artifact publisher.  The two *)
(* share no state; a behaviour exercises one of them.                      *)
EXTENDS WaveStores, ArtifactPublisher

VARIABLE subject   \* "stores" or "artifacts"

mcvars == <<subject, storeVars, pubVars>>

MCTargets == [p \in Publishers |-> IF p = "p1" THEN <<1, 2>> ELSE <<2, 3>>]

Clocks == {[edge |-> "absent", sample_point |-> "absent"],
           [edge |-> "posedge", sample_point |-> "absent"],
           [edge |-> "dual", sample_point |-> "after"],
           [edge |-> "negedge", sample_point |-> "before"]}

MCBusDocs ==
    {[unknown |-> FALSE, legacy |-> FALSE, clock |-> "ok", edge |-> c.edge,
      sample_point |-> c.sample_point, reset |-> r, required |-> "ok",
      optional |-> o] : c \in Clocks, r \in {"active_low", "bad"}, o \in {"absent", "ok"}}

MCAxiWaves ==
    {[found |-> f, control |-> c, awid |-> 4, bid |-> 4, arid |-> 4, rid |-> r,
      wdata |-> 32, rdata |-> 32, wstrb |-> s, first_edge |-> TRUE] :
        f \in BOOLEAN, c \in {0, 1, 2}, r \in {0, 4, 5}, s \in {4, 8}}

MCEventDocs ==
    {[unknown |-> FALSE, legacy |-> FALSE, clock |-> "ok", edge |-> c.edge,
      sample_point |-> c.sample_point, reset |-> "absent", aliases |-> {"a"},
      fields |-> f] :
        c \in Clocks,
        f \in {{}, {[shape |-> "text", bounds |-> "int", alias |-> "a"]},
               {[shape |-> "object", bounds |-> "int", alias |-> "b"]}}}

Fields(names) == [present |-> names # {}, names |-> names]

MCStreamDocs ==
    {[unknown |-> FALSE, legacy |-> FALSE, name |-> 0, aliases |-> {"a"},
      clock |-> "ok", edge |-> c.edge, sample_point |-> c.sample_point,
      reset |-> "absent", vld |-> "ok", sop |-> p.packet, eop |-> p.packet,
      data |-> "ok", channel_id |-> p.packet, channel_id_valid |-> p.valid,
      allow_interleaving |-> p.interleave, beat_fields |-> Fields({}),
      packet_stable_fields |-> Fields(p.stable)] :
        c \in Clocks,
        p \in {[packet |-> "absent", valid |-> "absent", interleave |-> FALSE, stable |-> {}],
               [packet |-> "ok", valid |-> "every_beat", interleave |-> TRUE, stable |-> {"len"}],
               [packet |-> "ok", valid |-> "sop", interleave |-> TRUE, stable |-> {}]}}

MCInit ==
    /\ subject \in {"stores", "artifacts"}
    /\ InitStores /\ InitPublisher
    /\ subject = "artifacts" => kind = "lists"

StoresStep == subject = "stores" /\ NextStores /\ UNCHANGED <<subject, pubVars>>
ArtifactStep == subject = "artifacts" /\ NextPublisher /\ UNCHANGED <<subject, storeVars>>

MCNext == StoresStep \/ ArtifactStep

MCSpec == MCInit /\ [][MCNext]_mcvars
=============================================================================
