----------------------------- MODULE MCFilePage -----------------------------
\* The list of a file-share page, and beside it the parts of the page that share
\* no variable with it: a behaviour is one of the part that it starts with.
EXTENDS FileListPage, RemoteRootConfirmation, PendingReadyResolver, ReplicationRole,
        DownloadSink

VARIABLE part

Parts == {"list", "confirmation", "resolver", "role", "sink"}

\* The parts that are not looked at have one initial state.
MCInit ==
    /\ part \in Parts
    /\ PageInit /\ ConfirmationInit /\ ResolverInit /\ RoleInit /\ SinkInit
    /\ part # "resolver" => active = {}
    /\ part # "role" => currentRole = Observer
    /\ part # "sink" => locks

Rest(p) ==
    /\ p # "list" => UNCHANGED pageVars
    /\ p # "confirmation" => UNCHANGED confirmationVars
    /\ p # "resolver" => UNCHANGED resolverVars
    /\ p # "role" => UNCHANGED roleVars
    /\ p # "sink" => UNCHANGED sinkVars

MCNext ==
    /\ UNCHANGED part /\ Rest(part)
    /\ \/ part = "list" /\ PageNext
       \/ part = "confirmation" /\ ConfirmationNext
       \/ part = "resolver" /\ ResolverNext
       \/ part = "role" /\ RoleNext
       \/ part = "sink" /\ SinkNext

\* PageFairness, for the behaviours of the list.
List == part = "list"
MCFairness ==
    /\ WF_pageVars(List /\ RequestRefresh("refresh")) /\ WF_pageVars(List /\ StartRefresh)
    /\ WF_pageVars(List /\ ListingArrives) /\ WF_pageVars(List /\ RemoteListingArrives)
    /\ SF_pageVars(/\ List /\ StartRefresh /\ refresh'.localKnown
                   /\ In(refresh'.listing) = In(Newest(Local, Remote)))
    /\ SF_pageVars(/\ List /\ ListingArrives /\ refresh'.stage = "remote"
                   /\ In(refresh'.listing) = In(Remote))
    /\ SF_pageVars(List /\ Reconciled) /\ SF_pageVars(List /\ ObserverListed)
    /\ WF_pageVars(List /\ AskPeers)
    /\ \A r \in Roots :
           /\ WF_pageVars(List /\ RemoteCatchesUp(r)) /\ WF_pageVars(List /\ LocalCatchesUp(r))
           /\ WF_pageVars(List /\ \E heard \in BOOLEAN : PeersAnswer(r, heard))
           /\ SF_pageVars(List /\ PeersAnswer(r, TRUE))
           /\ WF_pageVars(List /\ TellPage(r)) /\ WF_pageVars(List /\ FinishInquiry(r))

MCVars == <<part, pageVars, confirmationVars, resolverVars, roleVars, sinkVars>>
MCSpec == MCInit /\ [][MCNext]_MCVars /\ MCFairness
=============================================================================
