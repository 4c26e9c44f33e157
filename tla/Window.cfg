SPECIFICATION FairSpec
CONSTANTS
    s1 = s1
    s2 = s2
    p1 = p1
    p2 = p2
    p3 = p3
    p4 = p4
    p5 = p5
    None = None
    Sessions <- MCSessions
    Prompts <- MCPrompts
    Job <- MCJob
    Want <- MCWant
    Groups <- MCGroups
    Members <- MCMembers
    Mixes <- MCMixes
CHECK_DEADLOCK FALSE
INVARIANT ShownAsItWas
INVARIANT ThePersonDecides
INVARIANT OneTurnEachHeard
PROPERTY PromptsEnd
