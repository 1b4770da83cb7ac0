----------------------------- MODULE RecycleBin -----------------------------
(***************************************************************************)
(* The recycle bin over the two parts of a project it serves: the library  *)
(* of assets, and what ties the cards of the board.  They share no table    *)
(* but those of the cards and the bin itself, and no step of one reads a    *)
(* row the other writes: what a card's coming and going does to its assets *)
(* is in Library, what it does to its ties is in CardTies, each with its    *)
(* own rows of the bin.                                                     *)
(***************************************************************************)
EXTENDS Library

CONSTANTS TiedCard,   \* the cards of CardTies
          Milestone, Kind

VARIABLES board,      \* what CardTies calls board
          binned      \* and bin

Ties == INSTANCE CardTies WITH Card <- TiedCard, bin <- binned

ties == <<board, binned>>

BinInit == Init /\ Ties!Init

LibraryStep == Next /\ UNCHANGED ties

BoardStep == Ties!Next /\ UNCHANGED vars

BinNext == LibraryStep \/ BoardStep

BinSpec == BinInit /\ [][BinNext]_<<vars, ties>>

-----------------------------------------------------------------------------

(* Each link between cards has its other half on the board, in whatever     *)
(* order its cards were deleted and came back (linkCard).                   *)
LinksGoBothWays == Ties!LinksGoBothWays

(* The database takes back any card and any milestone of the bin            *)
(* (restoreFrom, forgetWhatIsGone).                                         *)
NothingIsRefused == Ties!NothingIsRefused

(* A card or a milestone deleted and restored leaves its ties, and those of *)
(* the cards it held together, as they were (deleteCard, deleteMilestone).  *)
TiesComeBack == Ties!TiesComeBack
=============================================================================
