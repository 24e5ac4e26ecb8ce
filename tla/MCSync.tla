------------------------------- MODULE MCSync -------------------------------
(***************************************************************************)
(* Small instances of SyncEngine.  Nextcloud and Immich yield files, Gmail *)
(* yields messages; only Nextcloud reads a body by its path.               *)
(***************************************************************************)
EXTENDS SyncProperties, TLC

CONSTANTS
    Big,            \* the contents that are longer than the others
    FileContent,    \* what a file may hold
    FreshContent,   \* what a file may hold that has no row from the start
    MailContent,    \* what a message may hold
    LegacyId,       \* ids of the rows that predate recorded sizes
    Pages           \* TRUE when an id-addressed Provider lists page by page

S == INSTANCE SequencesExt

MCKindOf == [p \in Provider |-> IF p = "gmail" THEN "message" ELSE "file"]
MCSizeOf == [c \in Content |-> IF c \in Big THEN 2 ELSE 1]
MCPathAddressed == Provider \cap {"nextcloud"}
MCMayHold == [k \in Provider \X ExtId |->
                CASE k[1] = "gmail" -> MailContent
                  [] k[1] # "gmail" /\ k[2] \in LegacyId -> FileContent
                  [] OTHER -> FreshContent]
MCLegacy == S!SetToSeq((Provider \ {"gmail"}) \X LegacyId)
MCPathsOf == [p \in Provider |->
                IF Pages \/ p \in MCPathAddressed THEN Path
                ELSE {CHOOSE d \in Path : TRUE}]

IdSymmetry == Permutations(ExtId)
WorkerSymmetry == Permutations(Worker)
WorkerAndIdSymmetry == IdSymmetry \cup WorkerSymmetry
=============================================================================
