------------------------------ MODULE WebServer ------------------------------
(***************************************************************************)
(* The services of the web application that share no state with the runs   *)
(* nor with each other: the corpora, an import, the stores of artifacts, the  *)
(* cache of the catalogues and the rate limit.  Whatever order their       *)
(* requests come in, each service sees its own only; so a behaviour picks  *)
(* one service and the others stand still.                                 *)
(***************************************************************************)
EXTENDS CorpusStore, CorpusImport, ArtifactStores, TtlCache, RateLimit

VARIABLE service

Services == {"corpora", "import", "artifacts", "catalogues", "limit"}

webVars == <<service, corpusVars, importVars, storesVars, ttlVars, rateVars>>

WebInit ==
  /\ service \in Services
  /\ CorpusInit /\ ImportInit /\ StoresInit /\ TtlInit /\ RateInit

WebNext ==
  \/ /\ service = "corpora" /\ CorpusNext
     /\ UNCHANGED <<service, importVars, storesVars, ttlVars, rateVars>>
  \/ /\ service = "import" /\ ImportNext
     /\ UNCHANGED <<service, corpusVars, storesVars, ttlVars, rateVars>>
  \/ /\ service = "artifacts" /\ StoresNext
     /\ UNCHANGED <<service, corpusVars, importVars, ttlVars, rateVars>>
  \/ /\ service = "catalogues" /\ TtlNext
     /\ UNCHANGED <<service, corpusVars, importVars, storesVars, rateVars>>
  \/ /\ service = "limit" /\ RateNext
     /\ UNCHANGED <<service, corpusVars, importVars, storesVars, ttlVars>>

WebSpec == WebInit /\ [][WebNext]_webVars
=============================================================================
