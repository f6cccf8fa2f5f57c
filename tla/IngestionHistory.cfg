SPECIFICATION FairSpec
CONSTANTS
 a=a b=b p1=p1 p2=p2 k1=k1 k2=k2 s1=s1 s2=s2 s3=s3 r1=r1 r2=r2 r3=r3 w1=w1 w2=w2
 None=None Contents={a,b} Scopes <- WholeVault
 Sources={1,2,3} Paths={p1} Keys={} Runs={1,2,3} Callers={w1}
 Preparation <- Varying_Preparation
 MaxEdits = 2
ACTION_CONSTRAINT IdsInOrder
INVARIANT
 CurrentIsScreened
PROPERTY
 RunsEnd
CHECK_DEADLOCK FALSE
