CONSTANTS
    Letters <- MCLetters
    Upper <- MCUpper
    Keywords <- MCKeywords
    MaxInteger = 127
    Width = 8
    CodePoints <- MCCodePoints
SPECIFICATION Spec
INVARIANTS
    TokenizeTilesTheText
    ParseIsTheGrammar
    EvaluationAgrees
    ScalarFunctionsAgree
    MatchIsMeaning
