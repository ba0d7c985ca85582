---------------------------- MODULE ArtworkChain ----------------------------
(***************************************************************************)
(* GraphGateway with one of its subgraphs opened up: artwork-dgs answers a *)
(* field artworkForTitle by a blocking gRPC call to asset-service, which   *)
(* sends one message (onNext) and then ends the call (onCompleted).  The   *)
(* stub sets no deadline: it returns when the call has ended, with the     *)
(* message or, if the connection breaks before that, with an exception,    *)
(* which makes the field null and adds an error.  asset-service dies and   *)
(* comes back at any moment.                                               *)
(***************************************************************************)
EXTENDS GraphGateway

CONSTANT ArtworkSubgraph  \* artwork-dgs

VARIABLES
  assetUp,  \* asset-service runs
  call,     \* call[i]: the gRPC call made for groups[i]
  fetched   \* fetched[i]: for each field of groups[i] so far, whether it has its URLs

chainVars == <<assetUp, call, fetched>>
allVars == <<vars, chainVars>>

NoCalls == [i \in Slots |-> "none"]
NothingFetched == [i \in Slots |-> <<>>]

(* As GraphGateway's TypeOK; and what is fetched belongs to a field. *)
ChainTypeOK ==
  /\ TypeOK
  /\ assetUp \in BOOLEAN
  /\ call \in [Slots -> {"none", "sent", "message", "completed", "unavailable"}]
  /\ \A i \in Slots :
       /\ fetched[i] \in Seq(BOOLEAN)
       /\ fetched[i] # <<>> => Len(fetched[i]) <= Len(groups[i].selections)

ChainInit ==
  /\ Init
  /\ assetUp = TRUE
  /\ call = NoCalls
  /\ fetched = NothingFetched

ToArtwork(i) == i \in DOMAIN futures /\ groups[i].subgraph = ArtworkSubgraph

(* artwork-dgs works on groups[i]: it runs the data fetchers of a query    *)
(* that validates one after the other.                                     *)
Working(i) == ToArtwork(i) /\ futures[i].state = "sent"
AllFetched(i) == Valid(groups[i]) => Len(fetched[i]) = Len(groups[i].selections)

-----------------------------------------------------------------------------
(* artworkForTitle.                                                        *)

CallAsset(i) ==
  /\ Working(i)
  /\ call[i] = "none"
  /\ ~AllFetched(i)
  /\ call' = [call EXCEPT ![i] = IF assetUp THEN "sent" ELSE "unavailable"]
  /\ UNCHANGED <<vars, assetUp, fetched>>

FetcherReturns(i) ==
  /\ Working(i)
  /\ call[i] \in {"completed", "unavailable"}
  /\ fetched' = [fetched EXCEPT ![i] = Append(@, call[i] = "completed")]
  /\ call' = [call EXCEPT ![i] = "none"]
  /\ UNCHANGED <<vars, assetUp>>

(* artwork-dgs answers with the fields it has fetched, or the gateway gets *)
(* no usable answer, before or after that.                                 *)
RepliesFromArtwork(i) ==
  LET missing == {groups[i].selections[j].key : j \in {n \in DOMAIN fetched[i] : ~fetched[i][n]}}
  IN  {reply \in Replies(groups[i]) :
         reply.kind = "fields" => AllFetched(i) /\ reply.nulls = missing}

-----------------------------------------------------------------------------
(* getArtworkUrls.                                                         *)

OnNext(i) ==
  /\ assetUp
  /\ call[i] = "sent"
  /\ call' = [call EXCEPT ![i] = "message"]
  /\ UNCHANGED <<vars, assetUp, fetched>>

(* A fault against RequestAnswered: onCompleted is forgotten. *)
OnCompleted_Forgotten(i) == UNCHANGED allVars

OnCompleted(i) ==
  /\ assetUp
  /\ call[i] = "message"
  /\ call' = [call EXCEPT ![i] = "completed"]
  /\ UNCHANGED <<vars, assetUp, fetched>>

(* The connection breaks, alone or with the process behind it. *)
Broken(calls) == [i \in Slots |-> IF i \in calls /\ call[i] \in {"sent", "message"}
                                  THEN "unavailable" ELSE call[i]]

ConnectionBreaks(i) ==
  /\ call[i] \in {"sent", "message"}
  /\ call' = Broken({i})
  /\ UNCHANGED <<vars, assetUp, fetched>>

AssetDies ==
  /\ assetUp
  /\ assetUp' = FALSE
  /\ call' = Broken(Slots)
  /\ UNCHANGED <<vars, fetched>>

AssetStarts ==
  /\ ~assetUp
  /\ assetUp' = TRUE
  /\ UNCHANGED <<vars, call, fetched>>

-----------------------------------------------------------------------------
(* What is left of a call whose answer nobody waits for any more is        *)
(* dropped with the next request.                                          *)
HandleRequest(q) ==
  /\ Handle(q)
  /\ call' = NoCalls
  /\ fetched' = NothingFetched
  /\ UNCHANGED assetUp

CompleteCall(i) ==
  /\ Complete(i)
  /\ ToArtwork(i) => futures'[i].reply \in RepliesFromArtwork(i)
  /\ UNCHANGED chainVars

FetchStep(i) == CallAsset(i) \/ FetcherReturns(i) \/ OnNext(i) \/ OnCompleted(i)

ChainNext ==
  \/ \E q \in Queries : HandleRequest(q)
  \/ RequestStep /\ UNCHANGED chainVars
  \/ \E i \in Slots :
       \/ Send(i) /\ UNCHANGED chainVars
       \/ FetchStep(i)
       \/ CompleteCall(i)
       \/ ConnectionBreaks(i)
  \/ AssetDies
  \/ AssetStarts

(* The gateway's own threads run; services and network owe nothing. *)
ChainSpec ==
  /\ ChainInit
  /\ [][ChainNext]_allVars
  /\ WF_vars(RequestStep)
  /\ \A i \in Slots : WF_vars(Send(i))

-----------------------------------------------------------------------------
(* Properties.                                                             *)

(* A request is answered if those it calls do their work, however often    *)
(* asset-service dies or connections break.  No timeout is set anywhere,   *)
(* so nothing else ends a request: not in the gateway's client             *)
(* (SubgraphClient.java:34-39, GatewayController.java:68), nor in the stub *)
(* (ArtworkDataFetcher.java:47).                                           *)
CalleesWork ==
  \A i \in Slots :
    WF_allVars(FetchStep(i) \/ (CompleteCall(i) /\ (ToArtwork(i) => AllFetched(i))))
RequestAnswered == CalleesWork => (phase = "plan" ~> phase = "answered")
=============================================================================
