----------------------------- MODULE Publication -----------------------------
(***************************************************************************)
(* What the product of a sequence run promises to a consumer that compares *)
(* the digests of the manifest with the files it finds: it sees one whole  *)
(* product or none; only a run that publishes takes the visible product    *)
(* away; and a product becomes visible for the first time at the very step *)
(* with which its run succeeds.                                            *)
(***************************************************************************)
CONSTANTS
  Product,  \* the possible products: the bytes of main, stream and report
  None      \* the consumer finds no product that it accepts

VARIABLES
  visible,  \* the product a consumer accepts, or None
  offered,  \* the product of the current run, or None
  past,     \* the products that were published
  stage     \* of the current run: "working", "publishing" or "over"

vars == <<visible, offered, past, stage>>

Init == visible = None /\ offered = None /\ past = {} /\ stage = "over"

\* A run starts to work, or ends without success: what is visible stays.
Begin == /\ stage = "over" /\ stage' = "working" /\ offered' = None
         /\ UNCHANGED <<visible, past>>
Stop == /\ stage # "over" /\ stage' = "over"
        /\ UNCHANGED <<visible, offered, past>>

\* A run has its product and starts to publish it.
Offer == /\ stage = "working" /\ stage' = "publishing" /\ offered' \in Product
         /\ UNCHANGED <<visible, past>>

(* While it publishes, the earlier product disappears; it reappears when   *)
(* the run happens to put the very bytes of a published product together.  *)
Disturb == /\ stage = "publishing"
           /\ visible' \in past \cup {None}
           /\ UNCHANGED <<offered, past, stage>>

\* The run succeeds: its own product is visible.
Publish == /\ stage = "publishing" /\ stage' = "over"
           /\ visible' = offered
           /\ past' = past \cup {offered}
           /\ UNCHANGED offered

\* Power fails: what is visible afterwards was published before, if anything.
Outage == /\ stage' = "over"
          /\ visible' \in past \cup {None}
          /\ UNCHANGED <<offered, past>>

Next == Begin \/ Stop \/ Offer \/ Disturb \/ Publish \/ Outage

Spec == Init /\ [][Next]_vars
=============================================================================
