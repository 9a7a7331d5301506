----------------------------- MODULE MCScreens ------------------------------
(***************************************************************************)
(* The screens whose tables reuse cells: the comments of the feed, My      *)
(* Content and the details of an event; beside them the response in which  *)
(* the recording screen looks for tokens.  They share no state: each       *)
(* behaviour is one of one of them, chosen in the beginning, and the       *)
(* others stay in their initial state.                                     *)
(***************************************************************************)
EXTENDS CommentCells, TLC

CONSTANTS
  MaxContent,  \* bound: content collected
  Screen,      \* rows that fit on the screen
  Events,      \* of the feed, each the classes of its contents
  MaxItems     \* bound: items of a response

VARIABLES
  screen,
  view, count, numOfNewContent, badgeValue, contentIterator, rows, my_top, my_shown, reusable, seen, straight,
  EventType, loaded, aCells, top, shown, reuseQueue,
  xml

myContentVars == <<view, count, numOfNewContent, badgeValue, contentIterator, rows, my_top, my_shown, reusable,
  seen, straight>>
contentDetailsVars == <<EventType, loaded, aCells, top, shown, reuseQueue>>
screenVars == <<screen, vars, myContentVars, contentDetailsVars, xml>>

My == INSTANCE MyContent WITH top <- my_top, shown <- my_shown
Details == INSTANCE ContentDetails
Token == INSTANCE ExtractToken

\* The events the feed has, and the one Record opens the screen without.
FeedEvents ==
  {<<"General", "Friend", "Video">>, <<"Song", "Video">>, <<"Biography", "Video", "Video">>, <<"Biography">>, <<>>}

ASSUME ScreensAssumption ==
  My!MyContentAssumption /\ Details!ContentDetailsAssumption /\ Token!ExtractTokenAssumption

ScreensInit ==
  /\ screen \in {"comments", "collected", "details", "response"}
  /\ Init /\ My!Init /\ Details!Init /\ Token!Init /\ (screen # "details" => EventType = <<>>)

ScreensNext ==
  /\ UNCHANGED screen
  /\ \/ screen = "comments" /\ Next /\ UNCHANGED <<myContentVars, contentDetailsVars, xml>>
     \/ screen = "collected" /\ My!Next /\ UNCHANGED <<vars, contentDetailsVars, xml>>
     \/ screen = "details" /\ Details!Next /\ UNCHANGED <<vars, myContentVars, xml>>
     \/ screen = "response" /\ Token!Next /\ UNCHANGED <<vars, myContentVars, contentDetailsVars>>

ScreensSpec == ScreensInit /\ [][ScreensNext]_screenVars /\ Fairness

\* MyContentView.m: a row that comes in its turn shows its own content, and the
\* badge tells when there is some the user has not been shown.
MyContentSound == My!MyContentSound

\* ContentDetailsView.m: a cell that is reused is one of the row's class of
\* content, and of the row itself if no other is of that class.
DetailsSound == Details!ContentDetailsSound

\* AudibleMagicSmartSync.m:179: in a response with at most one instance of the token
\* to a line, its value is the first that has one, and nil exactly when there is none.
ValueOnSimpleLines == Token!ValueOnSimpleLines
=============================================================================
