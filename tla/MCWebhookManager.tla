--------------------------- MODULE MCWebhookManager ---------------------------
EXTENDS WebhookManager, TLC
CONSTANTS r1, r2, h1, h2

\* Both requests carry the same event; h2 also matches, with a lower priority.
MCEventOf == [r \in Requests |-> "e"]
MCByPriority == <<h1, h2>>
MCMatching == [h \in Handlers |-> {"e"}]
MCJobs == Requests \X Handlers
MCKeys == Handlers \X Events
MCKeyOf == [j \in Jobs |-> <<j[2], EventOf[j[1]]>>]
\* config.delivery names one mode for every handler.
MCExactlyOnce == Jobs
\* The requests are alike.
MCSymmetry == Permutations(Requests)
MCEntityOf == [e \in Events |-> "company"]
=============================================================================
