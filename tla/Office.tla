------------------------------- MODULE Office --------------------------------
(* The desks of a training centre: the files of the learners (CrmFile), the card of a     *)
(* learner (People) and the record of the organisation (Organisation).  The three write   *)
(* records of their own.                                                                  *)
EXTENDS CrmFile

CONSTANTS
    StageOrder, LearnerFiles, Items, Keys, PageSize, Clerks, Stories, \* People
    LegalNames, PlanCodes, Trial, StripeEvents, Tolerance, Horizon, MaxSent  \* Organisation

VARIABLES kinds, card, stage, listed, events, items, used, objects, uploaded, missable, clerk,
          now, org, directory, sent, task

P == INSTANCE People WITH
         Stages <- StageOrder, Files <- LearnerFiles, Handlers <- Clerks,
         journal <- events, job <- clerk

O == INSTANCE Organisation WITH
         Events <- StripeEvents, Handlers <- Clerks, card <- directory

people == <<kinds, card, stage, listed, events, items, used, objects, uploaded, missable, clerk>>
billing == <<now, org, directory, sent, task>>

ErasureExplained == P!ErasureExplained
OnlyStaleWritesRestore == P!OnlyStaleWritesRestore
PiecesOpen == P!PiecesOpen
ErasedOnEveryFile == P!ErasedOnEveryFile
OnlyStaleEditsUndo == O!OnlyStaleEditsUndo
=============================================================================
