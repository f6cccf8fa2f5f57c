SPECIFICATION Spec
CONSTANTS
 a=a b=b p1=p1 p2=p2 k1=k1 k2=k2 s1=s1 s2=s2 s3=s3 r1=r1 r2=r2 r3=r3 w1=w1 w2=w2
 None=None Contents={a,b} Scopes <- WholeVault
 Sources={s1,s2,s3} Paths={p1,p2} Keys={k1,k2} Runs={r1,r2} Callers={w1}
 Preparation <- Screened_Preparation
 MaxEdits = 1
SYMMETRY Interchangeable
INVARIANT
 PlanStaysApplicable AppliedItemsHold
CHECK_DEADLOCK FALSE
