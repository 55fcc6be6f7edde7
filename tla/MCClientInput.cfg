CONSTANT Scenes <- MCScenes
SPECIFICATION FairSpec
INVARIANTS WrittenOnceInOrder NoKeyVanishes ReplayHasNoGap OwnersApart
PROPERTY InputMoves
CHECK_DEADLOCK FALSE
