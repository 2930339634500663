SPECIFICATION Spec
CONSTANTS
  Vocabularies <- MCVocabularies
  Datas <- MCDatas
  MaxTokens = 5
  Whitespace = "condense"
  Components <- MCComponents
  Functional = {"fn"}
  Unary <- MCUnary
  NonPhrasing <- MCNonPhrasing
  LeftOpen <- MCLeftOpen
  PlainText <- MCPlainText
  Forbidden = {"style"}
  PreTags = {"pre"}
  None = None
INVARIANTS RendersTemplate StableSlotsAreStable SsrWritesTemplate
CHECK_DEADLOCK FALSE
