CONSTANTS
    Calls = {c1, c2}
    Texts <- MCTexts
    Languages <- MCLanguages
    Densities <- MCDensities
    MaxRetries = 2
    Nothing = Nothing
SPECIFICATION FairSpec
INVARIANTS TypeOK AnswerFitsRequest GivesUpForAReason
PROPERTIES OnlyRacesDegrade EveryCallIsAnswered
