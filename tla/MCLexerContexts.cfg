SPECIFICATION Spec
CONSTANTS
  Piece = {"word", "quote", "dollar", "brace", "bang", "comma", "tick", "newline"}
  MaxPieces = 10
INVARIANTS TypeOK ContextsFollowParser LiteralsReadTheirOwn ContextToDestroy NothingWithoutError
PROPERTY EndsOrKnownLoop
CONSTRAINT LongSourcesClose
CHECK_DEADLOCK FALSE
