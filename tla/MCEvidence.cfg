\* Nine people, each with three or four pages, read in every order.
SPECIFICATION Spec
CONSTANTS
  Policy <- PolicyValue
  Mentions <- MentionsValue
  Generic <- Offices
  Words <- WordsValue
  Medicine <- Surgery
  Law <- Laws
  Unqualified <- BasesValue
  Aliases <- Acronyms
  Source <- SourceValue
  Answers <- AnswersValue
  People <- PeopleValue
  MaxBlocked = 1
INVARIANTS
  EvidenceTypeOK
  NamesakesStayApart
  RolesAndCredentialsStayVisible
  EducationIgnoresOrder
  ListedDegreesStayApart
  NothingFromBlockedSources
  ReadingTwiceChangesNothing
\* Research ends.
CHECK_DEADLOCK FALSE
